---- MODULE Spec2Model ----
(***************************************************************************)
(* CineScope: a Dash dashboard over the TMDB movie table.                  *)
(*                                                                         *)
(* Two applications share the data pipeline modelled here:                 *)
(*   dash_dashboard.py  one module-level table df, global theme state and  *)
(*                      the global choropleth_data, callbacks on them;     *)
(*   app.py + tabs/*    one preprocessed table per tab module, callbacks   *)
(*                      that recompute figures from it.                    *)
(*                                                                         *)
(* Values.  A cell of a table is a record [t, v]:                          *)
(*   Na            a missing value (NaN / None / NaT)                      *)
(*   S(p)          a string; p is its sequence of pieces, a piece being a  *)
(*                 word (a maximal run without separators), "," , " ",     *)
(*                 "[" , "]" or "'"                                        *)
(*   L(c)          a Python list of cells                                  *)
(*   Num(n, d)     the number n/d in lowest terms; Inf is +infinity        *)
(***************************************************************************)
EXTENDS Integers, Sequences, FiniteSets, TLC

VARIABLES csv, df, plot_themes, current_theme, choropleth_data, out, served

vars == <<csv, df, plot_themes, current_theme, choropleth_data, out, served>>

-----------------------------------------------------------------------------
(* Cells *)

Na == [t |-> "na", v |-> <<>>]

S(p) == [t |-> "str", v |-> p]

L(c) == [t |-> "list", v |-> c]

isna(c) == c.t = "na"

notna(c) == c.t # "na"

IsStr(c) == c.t = "str"

\* The empty string ''.
EmptyStr == S(<<>>)

\* All sequences over alphabet A of length at most n.
SeqsUpTo(A, n) == UNION {[1..k -> A] : k \in 0..n}

-----------------------------------------------------------------------------
(* Strings: the str methods and regular expressions the pipeline uses *)

\* str.lower() on one word of the model's vocabulary; separators and
\* lower-case words are their own lower case.
LowerWord(w) ==
    CASE w = "NaN" -> "nan"
      [] w = "None" -> "none"
      [] w = "Action" -> "action"
      [] w = "Drama" -> "drama"
      [] w = "Comedy" -> "comedy"
      [] w = "Lionsgate" -> "lionsgate"
      [] w = "LIONSGATE" -> "lionsgate"
      [] w = "Lionsgate Films" -> "lionsgate films"
      [] w = "Pixar Animation" -> "pixar animation"
      [] w = "Pixar" -> "pixar"
      [] w = "Animation" -> "animation"
      [] w = "Universal Pictures" -> "universal pictures"
      [] w = "A" -> "a"
      [] w = "B" -> "b"
      [] OTHER -> w

LowerPieces(p) == [i \in 1..Len(p) |-> LowerWord(p[i])]

RECURSIVE LStrip(_)
LStrip(p) == IF p # <<>> /\ Head(p) = " " THEN LStrip(Tail(p)) ELSE p

RECURSIVE RStrip(_)
RStrip(p) ==
    IF p # <<>> /\ p[Len(p)] = " " THEN RStrip(SubSeq(p, 1, Len(p) - 1)) ELSE p

\* str.strip(): leading and trailing whitespace removed.
StripPieces(p) == RStrip(LStrip(p))

RECURSIVE LStripChars(_, _)
LStripChars(p, chars) ==
    IF p # <<>> /\ Head(p) \in chars THEN LStripChars(Tail(p), chars) ELSE p

RECURSIVE RStripChars(_, _)
RStripChars(p, chars) ==
    IF p # <<>> /\ p[Len(p)] \in chars
    THEN RStripChars(SubSeq(p, 1, Len(p) - 1), chars)
    ELSE p

\* str.strip("[]"): leading and trailing brackets removed.
StripBrackets(p) == RStripChars(LStripChars(p, {"[", "]"}), {"[", "]"})

\* str.replace("'", ""): every quote removed.
RemoveQuotes(p) == SelectSeq(p, LAMBDA x : x # "'")

\* re.split(r',\s*', s): a comma and the whitespace after it separate tokens.
RECURSIVE SplitCommaWsFrom(_, _)
SplitCommaWsFrom(p, cur) ==
    IF p = <<>> THEN <<cur>>
    ELSE IF Head(p) = ","
         THEN <<cur>> \o SplitCommaWsFrom(LStrip(Tail(p)), <<>>)
         ELSE SplitCommaWsFrom(Tail(p), Append(cur, Head(p)))

SplitCommaWs(p) == SplitCommaWsFrom(p, <<>>)

\* s.split(','): the comma alone separates tokens.
RECURSIVE SplitCommaFrom(_, _)
SplitCommaFrom(p, cur) ==
    IF p = <<>> THEN <<cur>>
    ELSE IF Head(p) = ","
         THEN <<cur>> \o SplitCommaFrom(Tail(p), <<>>)
         ELSE SplitCommaFrom(Tail(p), Append(cur, Head(p)))

SplitComma(p) == SplitCommaFrom(p, <<>>)

\* s.split(", "): a comma followed by one space separates tokens.
RECURSIVE SplitCommaSpaceFrom(_, _)
SplitCommaSpaceFrom(p, cur) ==
    IF p = <<>> THEN <<cur>>
    ELSE IF Len(p) >= 2 /\ p[1] = "," /\ p[2] = " "
         THEN <<cur>> \o SplitCommaSpaceFrom(Tail(Tail(p)), <<>>)
         ELSE SplitCommaSpaceFrom(Tail(p), Append(cur, Head(p)))

SplitCommaSpace(p) == SplitCommaSpaceFrom(p, <<>>)

\* repr() of a list of strings, as astype(str) renders a list cell:
\* ['a', 'b'] with nan for a missing element.
RECURSIVE ReprItems(_)
ReprItems(items) ==
    IF items = <<>> THEN <<>>
    ELSE (IF isna(Head(items)) THEN <<"nan">>
          ELSE <<"'">> \o Head(items).v \o <<"'">>)
         \o (IF Len(items) > 1 THEN <<",", " ">> ELSE <<>>)
         \o ReprItems(Tail(items))

-----------------------------------------------------------------------------
(* pandas: element-wise Series.str methods, astype, fillna, explode *)

\* Series.str.split(r',\s*'): a list for a string, NaN for anything else.
str_split_re(c) ==
    IF IsStr(c)
    THEN L([i \in 1..Len(SplitCommaWs(c.v)) |-> S(SplitCommaWs(c.v)[i])])
    ELSE Na

\* Series.str.split(", ")
str_split_comma_space(c) ==
    IF IsStr(c)
    THEN L([i \in 1..Len(SplitCommaSpace(c.v)) |-> S(SplitCommaSpace(c.v)[i])])
    ELSE Na

\* Series.str.split(',')
str_split_comma(c) ==
    IF IsStr(c)
    THEN L([i \in 1..Len(SplitComma(c.v)) |-> S(SplitComma(c.v)[i])])
    ELSE Na

\* Series.str.strip(): NaN for a cell that is no string (a list, NaN).
str_strip(c) == IF IsStr(c) THEN S(StripPieces(c.v)) ELSE Na

\* Series.str.lower()
str_lower(c) == IF IsStr(c) THEN S(LowerPieces(c.v)) ELSE Na

\* Series.str.strip("[]")
str_strip_brackets(c) == IF IsStr(c) THEN S(StripBrackets(c.v)) ELSE Na

\* Series.str.replace("'", "")
str_replace_quote(c) == IF IsStr(c) THEN S(RemoveQuotes(c.v)) ELSE Na

\* Series.astype(str): str() of the cell.
astype_str(c) ==
    CASE c.t = "str" -> c
      [] c.t = "na" -> S(<<"nan">>)
      [] c.t = "list" -> S(<<"[">> \o ReprItems(c.v) \o <<"]">>)

\* Series.fillna('')
fillna_empty(c) == IF isna(c) THEN EmptyStr ELSE c

\* [g.strip() for g in x.split(',')]
split_strip_list(c) ==
    L([i \in 1..Len(SplitComma(c.v)) |-> S(StripPieces(SplitComma(c.v)[i]))])

\* The rows one row explodes to on column col: one per list element, one
\* NaN row for an empty list, the row itself for a cell that is no list.
ExplodeRow(r, col) ==
    IF r[col].t = "list"
    THEN IF r[col].v = <<>>
         THEN << [r EXCEPT ![col] = Na] >>
         ELSE [i \in 1..Len(r[col].v) |-> [r EXCEPT ![col] = r[col].v[i]]]
    ELSE <<r>>

\* DataFrame.explode(col)
RECURSIVE explode(_, _)
explode(rows, col) ==
    IF rows = <<>> THEN <<>>
    ELSE ExplodeRow(Head(rows), col) \o explode(Tail(rows), col)

\* pandas.read_csv: a field whose whole text is one of the default NA
\* spellings is read as NaN, any other text as a string.
na_values == {<<>>, <<"nan">>, <<"NaN">>, <<"None">>}

read_csv_cell(text) == IF text \in na_values THEN Na ELSE S(text)

-----------------------------------------------------------------------------
(* Numbers and dates *)

Num(n, d) == [t |-> "num", v |-> <<n, d>>]

Whole(n) == Num(n, 1)

\* numpy's +inf (the table holds no negative amounts, so never -inf).
Inf == [t |-> "inf", v |-> <<>>]

IsNum(c) == c.t = "num"

RECURSIVE GCD(_, _)
GCD(a, b) == IF b = 0 THEN a ELSE GCD(b, a % b)

\* Series / Series on floats: NaN for a missing operand and for 0/0, inf
\* for a positive amount over 0, else the quotient.
truediv(a, b) ==
    IF ~IsNum(a) \/ ~IsNum(b) THEN Na
    ELSE IF b.v[1] = 0 THEN (IF a.v[1] = 0 THEN Na ELSE Inf)
    ELSE LET n == a.v[1] * b.v[2]
             d == a.v[2] * b.v[1]
         IN  Num(n \div GCD(n, d), d \div GCD(n, d))

\* A replace that leaves the infinities in the column.
replace_inf_cell_missing(c) == c

\* DataFrame.replace([np.inf, -np.inf], np.nan) on one cell.
replace_inf_cell(c) == IF c.t = "inf" THEN Na ELSE c

\* DataFrame.replace([np.inf, -np.inf], np.nan, inplace=True): every column.
replace_inf(rows) ==
    [i \in 1..Len(rows) |-> [f \in DOMAIN rows[i] |-> replace_inf_cell(rows[i][f])]]

\* a < b on floats; every comparison with NaN is false.
NumLess(a, b) ==
    CASE IsNum(a) /\ IsNum(b) -> a.v[1] * b.v[2] < b.v[1] * a.v[2]
      [] IsNum(a) /\ b.t = "inf" -> TRUE
      [] OTHER -> FALSE

\* Series.between(lo, hi), inclusive; false for NaN.
between(c, lo, hi) ==
    IsNum(c) /\ lo * c.v[2] <= c.v[1] /\ c.v[1] <= hi * c.v[2]

\* The calendar year of a date text pandas can parse; 0 for a text it cannot.
ParseYear(w) ==
    CASE w = "1935-03-01" -> 1935
      [] w = "1975-06-01" -> 1975
      [] w = "1980-01-01" -> 1980
      [] w = "1985-07-03" -> 1985
      [] w = "1989-12-31" -> 1989
      [] w = "1990-06-15" -> 1990
      [] w = "1999-12-31" -> 1999
      [] w = "2000-01-01" -> 2000
      [] w = "2019-12-31" -> 2019
      [] w = "2021-01-15" -> 2021
      [] w = "2023-12-31" -> 2023
      [] w = "2024-02-02" -> 2024
      [] OTHER -> 0

Timestamp(y) == [t |-> "ts", v |-> <<y>>]

Parseable(c) == IsStr(c) /\ Len(c.v) = 1 /\ ParseYear(c.v[1]) # 0

\* pd.to_datetime(x, errors='coerce') on one cell: NaT for a missing value
\* and for text that is no date.
to_datetime_coerce(c) ==
    IF c.t = "ts" THEN c
    ELSE IF Parseable(c) THEN Timestamp(ParseYear(c.v[1]))
    ELSE Na

\* pd.to_datetime(x) with the default errors='raise' raises on a string
\* that is no date.
to_datetime_raises(c) == IsStr(c) /\ ~Parseable(c)

\* Series.dt.year: NaN for NaT.
dt_year(c) == IF c.t = "ts" THEN Whole(c.v[1]) ELSE Na

-----------------------------------------------------------------------------
(* Grouping and ranking *)

\* The group keys of a column: its values, NaN excluded (groupby and
\* value_counts drop NaN keys).
Keys(rows, col) == {rows[i][col] : i \in 1..Len(rows)} \ {Na}

\* groupby(col).size()[k]
Count(rows, col, k) == Cardinality({i \in 1..Len(rows) : rows[i][col] = k})

\* Every arrangement of the set K in a sequence.
Orders(K) ==
    {o \in [1..Cardinality(K) -> K] : \A i, j \in DOMAIN o : i # j => o[i] # o[j]}

\* The first n elements of a sequence: head(n), nlargest(n) of a sorted one.
FirstN(s, n) == SubSeq(s, 1, IF Len(s) < n THEN Len(s) ELSE n)

\* The words the tables use, in the order Python compares strings.
WordsInOrder ==
    <<" ", "'", ",", "1935-03-01", "1975-06-01", "1985-07-03", "1999-12-31",
      "2021-01-15", "2024-02-02", "A", "Action", "Animation", "Atlantis", "B", "C", "Comedy",
      "D", "Drama", "E", "F", "France", "G", "H", "I", "LIONSGATE", "Lionsgate", "Lionsgate Films", "NaN", "None",
      "Pixar", "Pixar Animation", "Studio XYZ", "T1", "T2", "T3",
      "UK", "United Kingdom", "Universal Pictures", "Walt Disney Pictures", "Walt Disney Studios", "[", "]",
      "a", "action", "animation", "b", "comedy", "drama", "lionsgate", "lionsgate films", "nan", "none", "not a date",
      "pixar", "pixar animation", "universal pictures">>

WordRank(w) ==
    IF \E i \in 1..Len(WordsInOrder) : WordsInOrder[i] = w
    THEN CHOOSE i \in 1..Len(WordsInOrder) : WordsInOrder[i] = w
    ELSE 0

\* p < q for two strings, compared word by word.
RECURSIVE PiecesLess(_, _)
PiecesLess(p, q) ==
    IF q = <<>> THEN FALSE
    ELSE IF p = <<>> THEN TRUE
    ELSE IF Head(p) = Head(q) THEN PiecesLess(Tail(p), Tail(q))
    ELSE WordRank(Head(p)) < WordRank(Head(q))

\* a < b for two group keys: strings as Python orders them, numbers by value.
CellLess(a, b) ==
    CASE IsStr(a) /\ IsStr(b) -> PiecesLess(a.v, b.v)
      [] IsNum(a) /\ IsNum(b) -> a.v[1] * b.v[2] < b.v[1] * a.v[2]
      [] OTHER -> FALSE

\* The set K in ascending order: the order groupby gives its keys.
RECURSIVE SortedKeys(_)
SortedKeys(K) ==
    IF K = {} THEN <<>>
    ELSE LET m == CHOOSE x \in K : \A y \in K : ~CellLess(y, x)
         IN  <<m>> \o SortedKeys(K \ {m})

\* The arrangements of the indices of vals in non-increasing order of
\* their values.
DescOrders(vals) ==
    {o \in Orders(1..Len(vals)) :
        \A i, j \in 1..Len(vals) : i < j => ~NumLess(vals[o[i]], vals[o[j]])}

\* numpy sorts up to 16 elements by insertion, which is stable; its
\* quicksort of more is not.
StableSortMax == 16

\* The stable descending arrangement of the indices I of vals: largest
\* first, equal values in index order.
RECURSIVE StableDesc(_, _)
StableDesc(vals, I) ==
    IF I = {} THEN <<>>
    ELSE LET m == CHOOSE i \in I : \A j \in I :
                    /\ ~NumLess(vals[i], vals[j])
                    /\ (~NumLess(vals[j], vals[i]) => i <= j)
         IN  <<m>> \o StableDesc(vals, I \ {m})

\* The stable ascending arrangement.
RECURSIVE StableAsc(_, _)
StableAsc(vals, I) ==
    IF I = {} THEN <<>>
    ELSE LET m == CHOOSE i \in I : \A j \in I :
                    /\ ~NumLess(vals[j], vals[i])
                    /\ (~NumLess(vals[i], vals[j]) => i <= j)
         IN  <<m>> \o StableAsc(vals, I \ {m})

\* sort_values(ascending=False) with the default kind='quicksort': the
\* arrangements the sort can leave.  Equal values keep their order in a
\* short series and come out in an unspecified order in a longer one.
sort_desc(vals) ==
    IF Len(vals) <= StableSortMax
    THEN {StableDesc(vals, 1..Len(vals))}
    ELSE DescOrders(vals)

\* sort_values() ascending, as sort_desc.
sort_asc(vals) ==
    IF Len(vals) <= StableSortMax
    THEN {StableAsc(vals, 1..Len(vals))}
    ELSE {o \in Orders(1..Len(vals)) :
            \A i, j \in 1..Len(vals) : i < j => ~NumLess(vals[o[j]], vals[o[i]])}

\* The rows left as they are.
rows_unsorted(rows, col) == {rows}

\* DataFrame.sort_values(by=col, ascending=False): the rows in each order
\* the sort can leave them.
sort_values_desc(rows, col) ==
    {[i \in 1..Len(rows) |-> rows[o[i]]] : o \in sort_desc([i \in 1..Len(rows) |-> rows[i][col]])}

\* DataFrame.sort_values(col)
sort_values_asc(rows, col) ==
    {[i \in 1..Len(rows) |-> rows[o[i]]] : o \in sort_asc([i \in 1..Len(rows) |-> rows[i][col]])}

\* The distinct values of a column in order of first appearance, NaN
\* excluded: the order in which value_counts meets its keys.
FirstKeys(rows, col) ==
    LET idx == SelectSeq([i \in 1..Len(rows) |-> i],
                         LAMBDA i : /\ notna(rows[i][col])
                                    /\ \A j \in 1..(i - 1) : rows[j][col] # rows[i][col])
    IN  [i \in 1..Len(idx) |-> rows[idx[i]][col]]

\* Series.value_counts(): the <<key, count>> pairs by count descending,
\* in each order the sort can leave them.
value_counts(rows, col) ==
    LET ks == FirstKeys(rows, col)
        cnt == [i \in 1..Len(ks) |-> Whole(Count(rows, col, ks[i]))]
    IN  {[i \in 1..Len(ks) |-> <<ks[o[i]], Count(rows, col, ks[o[i]])>>] :
            o \in sort_desc(cnt)}

\* groupby(col).size().sort_values(ascending=False): the groups come in
\* ascending key order and are then sorted by count.
groupby_size_sorted(rows, col) ==
    LET ks == SortedKeys(Keys(rows, col))
        cnt == [i \in 1..Len(ks) |-> Whole(Count(rows, col, ks[i]))]
    IN  {[i \in 1..Len(ks) |-> <<ks[o[i]], Count(rows, col, ks[o[i]])>>] :
            o \in sort_desc(cnt)}

\* value_counts().nlargest(n) and value_counts().head(n): nlargest keeps
\* the first of equal counts.
value_counts_top(rows, col, n) == {FirstN(vc, n) : vc \in value_counts(rows, col)}

-----------------------------------------------------------------------------
(* Figures *)

\* A figure: its title (the fixed part of the title text, "" for none) and
\* the data rows it plots.
Figure(title, data) == [kind |-> "figure", title |-> title, data |-> data]

\* An exception leaving the function instead of a figure.
Raise(exc) == [kind |-> "raise", title |-> exc, data |-> <<>>]

-----------------------------------------------------------------------------
(* Tables *)

\* One row of the movie table as pandas.read_csv loads it.
Row(title, genres, countries, companies, date, budget, revenue) ==
    [title |-> title, genres |-> genres, production_countries |-> countries,
     production_companies |-> companies, release_date |-> date,
     budget |-> budget, revenue |-> revenue, popularity |-> Whole(1),
     vote_average |-> Whole(1), vote_count |-> Whole(1)]

\* Global state of dash_dashboard.py right after import.
InitPlotThemes ==
    [p \in {"correlation_heatmap", "budget_revenue_bar", "genre_treemap",
            "budget_revenue_scatter", "genre_sunburst", "country_genre_pie",
            "choropleth_map", "top10_movies", "company_donut", "company_genre",
            "company_sankey"} |-> "dark"]

\* choropleth_data = {}: nothing stored yet.
InitChoroplethData == [set |-> FALSE, summary |-> {}, country_genre |-> {}]

InitGlobals ==
    /\ plot_themes = InitPlotThemes
    /\ current_theme = "dark"
    /\ choropleth_data = InitChoroplethData
    /\ served = 0

NoOut == [fn |-> "none"]

-----------------------------------------------------------------------------
(* Row expansion at its call sites *)

\* create_choropleth_map, preprocessing: rows without a country are
\* dropped, both columns are split and exploded, tokens are stripped.
choropleth_df1(rows) ==
    LET a == SelectSeq(rows, LAMBDA r : notna(r.production_countries))
        b == SelectSeq(a, LAMBDA r : str_strip(r.production_countries) # EmptyStr)
        c == [i \in 1..Len(b) |->
                [b[i] EXCEPT !.production_countries = str_split_re(@),
                             !.genres = str_split_re(@)]]
        d == explode(explode(c, "production_countries"), "genres")
    IN  [i \in 1..Len(d) |->
            [d[i] EXCEPT !.production_countries = str_strip(@),
                         !.genres = str_strip(@)]]

\* tabs/genre.py and tabs/overview.py, module level: genres are filled,
\* split and exploded, the year is taken from release_date.
genre_tab_df(rows) ==
    LET a == explode([i \in 1..Len(rows) |->
                        [rows[i] EXCEPT !.genres = str_split_re(fillna_empty(@))]],
                     "genres")
    IN  [i \in 1..Len(a) |->
            [year |-> dt_year(to_datetime_coerce(a[i].release_date))] @@ a[i]]

\* create_country_genre_pie, preprocessing: rows with both fields present,
\* each split on ',' with its tokens stripped, exploded on both.
country_genre_pie_exploded(rows) ==
    LET a == SelectSeq(rows, LAMBDA r : notna(r.genres) /\ notna(r.production_countries))
        b == [i \in 1..Len(a) |->
                [a[i] EXCEPT !.genres = split_strip_list(@),
                             !.production_countries = split_strip_list(@)]]
    IN  explode(explode(b, "genres"), "production_countries")

-----------------------------------------------------------------------------
(* SpecExplode: one record, its genres and production_countries drawn from  *)
(* all short texts, expanded at each call site.                             *)

MaxFieldLen == 3

FieldAlphabet == {"Action", ",", " "}

FieldTexts == SeqsUpTo(FieldAlphabet, MaxFieldLen)

ExplodeInit ==
    /\ \E g \in FieldTexts, c \in FieldTexts :
          csv = << Row(S(<<"T1">>), read_csv_cell(g), read_csv_cell(c), Na, Na, Na, Na) >>
    /\ df = csv
    /\ InitGlobals
    /\ out = NoOut

ChoroplethExplode ==
    /\ out' = [fn |-> "create_choropleth_map", rows |-> choropleth_df1(csv)]
    /\ UNCHANGED <<csv, df, plot_themes, current_theme, choropleth_data, served>>

GenreTabExplode ==
    /\ out' = [fn |-> "tabs.genre", rows |-> genre_tab_df(csv)]
    /\ UNCHANGED <<csv, df, plot_themes, current_theme, choropleth_data, served>>

CountryGenrePieExplode ==
    /\ out' = [fn |-> "create_country_genre_pie", rows |-> country_genre_pie_exploded(csv)]
    /\ UNCHANGED <<csv, df, plot_themes, current_theme, choropleth_data, served>>

ExplodeNext == ChoroplethExplode \/ GenreTabExplode \/ CountryGenrePieExplode

SpecExplode == ExplodeInit /\ [][ExplodeNext]_vars

\* The number of tokens the field holds: none for a null or empty field,
\* else one more than its commas.
NTokens(c) ==
    IF isna(c) \/ StripPieces(c.v) = <<>> THEN 0
    ELSE Len(SelectSeq(c.v, LAMBDA x : x = ",")) + 1

\* C1: exploding two multi-valued columns with m and n tokens yields exactly
\* m*n rows for the record, and 0 rows when m = 0 or n = 0 (a null or empty
\* field); exploding the one column of tabs/genre.py yields 0 rows for a
\* null field.
C1_CrossProductRows ==
    /\ out.fn \in {"create_choropleth_map", "create_country_genre_pie"} =>
          Len(out.rows) = NTokens(csv[1].production_countries) * NTokens(csv[1].genres)
    /\ out.fn = "tabs.genre" => (NTokens(csv[1].genres) = 0 => Len(out.rows) = 0)

\* For fields that both hold text, the row count is the product of the
\* token counts at the two-column call sites.
CrossProductWhenPresent ==
    (/\ out.fn \in {"create_choropleth_map", "create_country_genre_pie"}
     /\ NTokens(csv[1].production_countries) > 0
     /\ NTokens(csv[1].genres) > 0)
    => Len(out.rows) = NTokens(csv[1].production_countries) * NTokens(csv[1].genres)

-----------------------------------------------------------------------------
(* tabs/company.py *)

\* The strings dropped as invalid tokens: '', 'nan', 'none'.
InvalidTokens == {S(<<>>), S(<<"nan">>), S(<<"none">>)}

\* Module level: the tab's table. The genres filter lower-cases a column of
\* lists, which gives NaN for every row, so it removes nothing.
company_tab_df(rows) ==
    LET a == [i \in 1..Len(rows) |->
                [rows[i] EXCEPT !.genres = str_split_re(fillna_empty(@))]]
        b == SelectSeq(a, LAMBDA r : notna(r.genres))
        c == SelectSeq(b, LAMBDA r : str_lower(r.genres) \notin InvalidTokens)
        d == [i \in 1..Len(c) |->
                [year |-> dt_year(to_datetime_coerce(c[i].release_date))] @@ c[i]]
        e == SelectSeq(d, LAMBDA r : between(r.year, 1940, 2023))
        f == SelectSeq(e, LAMBDA r :
                r.title \notin {S(<<"IPL 2025">>), S(<<"TikTok Rizz Party">>)})
        g == SelectSeq(f, LAMBDA r : /\ notna(r.title)
                                     /\ notna(r.production_countries)
                                     /\ notna(r.production_companies))
        h == [i \in 1..Len(g) |->
                [g[i] EXCEPT !.production_companies = str_split_re(@)]]
        k == [i \in 1..Len(h) |->
                [roi |-> truediv(h[i].revenue, h[i].budget)] @@ h[i]]
    IN  replace_inf(k)

\* astype(str).str.strip("[]").str.replace("'", "") then split(", "): a
\* list column rendered as text and split again.
relist(c) ==
    str_split_comma_space(str_replace_quote(str_strip_brackets(astype_str(c))))

\* companywrtgenre: the rows left after the genre and validity filters.
companywrtgenre_rows(rows, genre) ==
    LET a == explode(rows, "genres")
        b == [i \in 1..Len(a) |-> [a[i] EXCEPT !.genres = str_strip(@)]]
        c == SelectSeq(b, LAMBDA r : str_lower(r.genres) = S(LowerPieces(genre)))
        d == [i \in 1..Len(c) |-> [c[i] EXCEPT !.production_companies = relist(@)]]
        e == explode(d, "production_companies")
        f == [i \in 1..Len(e) |-> [e[i] EXCEPT !.production_companies = str_strip(@)]]
    IN  SelectSeq(f, LAMBDA r : /\ notna(r.production_companies)
                                /\ str_lower(r.production_companies) \notin InvalidTokens)

\* companywrtgenre(df, genre): the figures it can return.
companywrtgenre(rows, genre) ==
    IF companywrtgenre_rows(rows, genre) = <<>>
    THEN {Raise("ValueError")}
    ELSE {Figure("Top 7 Companies for", d) :
            d \in value_counts_top(companywrtgenre_rows(rows, genre),
                                   "production_companies", 7)}

\* The rows of one company: explode, strip, case-insensitive match.
\* The rows of a company, compared as written.
company_rows_exact(rows, company_name) ==
    LET a == explode(rows, "production_companies")
        b == [i \in 1..Len(a) |-> [a[i] EXCEPT !.production_companies = str_strip(@)]]
    IN  SelectSeq(b, LAMBDA r : r.production_companies = S(company_name))

company_rows(rows, company_name) ==
    LET a == explode(rows, "production_companies")
        b == [i \in 1..Len(a) |-> [a[i] EXCEPT !.production_companies = str_strip(@)]]
    IN  SelectSeq(b, LAMBDA r :
            str_lower(r.production_companies) = S(LowerPieces(company_name)))

\* genredist(df, company_name)
genredist(rows, company_name) ==
    LET a == explode(company_rows(rows, company_name), "genres")
        b == [i \in 1..Len(a) |-> [a[i] EXCEPT !.genres = str_strip(@)]]
    IN  IF b = <<>>
        THEN {Raise("ValueError")}
        ELSE {Figure("Top 7 Genres Produced by", d) : d \in value_counts_top(b, "genres", 7)}

-----------------------------------------------------------------------------
(* dash_dashboard.py: create_genre_treemap *)

RECURSIVE SumRevenue(_, _)
SumRevenue(rows, g) ==
    IF rows = <<>> THEN 0
    ELSE (IF Head(rows).genre_list = g THEN Head(rows).revenue.v[1] ELSE 0)
         + SumRevenue(Tail(rows), g)

\* The exploded rows create_genre_treemap groups: genres present and not
\* '', split on ',' with each token stripped, revenue above 0.
\* The treemap's exploded table without the revenue filter.
genre_treemap_exploded_nofilter(rows) ==
    LET a == SelectSeq(rows, LAMBDA r : notna(r.genres) /\ r.genres # EmptyStr)
        b == [i \in 1..Len(a) |-> [genre_list |-> split_strip_list(a[i].genres)] @@ a[i]]
    IN  explode(b, "genre_list")

genre_treemap_exploded(rows) ==
    LET a == SelectSeq(rows, LAMBDA r : notna(r.genres) /\ r.genres # EmptyStr)
        b == [i \in 1..Len(a) |-> [genre_list |-> split_strip_list(a[i].genres)] @@ a[i]]
        c == explode(b, "genre_list")
    IN  SelectSeq(c, LAMBDA r : NumLess(Whole(0), r.revenue))

\* create_genre_treemap(df): revenue summed per genre, largest first.
create_genre_treemap(rows) ==
    LET x == genre_treemap_exploded(rows)
        ks == SortedKeys(Keys(x, "genre_list"))
        rev == [i \in 1..Len(ks) |-> Whole(SumRevenue(x, ks[i]))]
    IN  {Figure("Total Revenue Share by Genre",
                [i \in 1..Len(ks) |-> <<ks[o[i]], rev[o[i]].v[1]>>]) :
            o \in sort_desc(rev)}

-----------------------------------------------------------------------------
(* SpecTokens: one record, its genres and production_companies drawn from   *)
(* all short texts, taken through the call sites that split and group them. *)

MaxTokenLen == 3

GenreTexts == SeqsUpTo({"Drama", "NaN", ",", " "}, MaxTokenLen)

CompanyTexts == SeqsUpTo({"Lionsgate", ",", " "}, MaxTokenLen)

\* The dropdown values of the company tab used here.
SomeCompanies == {<<"Lionsgate">>, <<"Pixar Animation">>}

SomeGenres == {<<"Drama">>, <<"Comedy">>}

TokensInit ==
    /\ \E g \in GenreTexts, c \in CompanyTexts :
          csv = << Row(S(<<"T1">>), read_csv_cell(g), S(<<"France">>),
                       read_csv_cell(c), S(<<"1985-07-03">>), Whole(1), Whole(2)) >>
    /\ df = csv
    /\ InitGlobals
    /\ out = NoOut

TokensFrame == <<csv, df, plot_themes, current_theme, choropleth_data, served>>

CallCompanywrtgenre ==
    /\ \E g \in SomeGenres :
         \E fig \in companywrtgenre(company_tab_df(csv), g) :
            out' = [fn |-> "companywrtgenre", fig |-> fig]
    /\ UNCHANGED TokensFrame

CallGenredist ==
    /\ \E c \in SomeCompanies :
         \E fig \in genredist(company_tab_df(csv), c) :
            out' = [fn |-> "genredist", fig |-> fig]
    /\ UNCHANGED TokensFrame

CallGenreTreemap ==
    /\ \E fig \in create_genre_treemap(df) :
            out' = [fn |-> "create_genre_treemap", fig |-> fig]
    /\ UNCHANGED TokensFrame

TokensNext == CallCompanywrtgenre \/ CallGenredist \/ CallGenreTreemap

SpecTokens == TokensInit /\ [][TokensNext]_vars

\* C2: at every call site that splits a multi-valued field, no token that
\* reaches grouping is '', 'nan' or 'none', compared case-insensitively.
C2_NoInvalidTokenGrouped ==
    out.fn \in {"companywrtgenre", "genredist", "create_genre_treemap"} =>
        \A i \in 1..Len(out.fig.data) :
            str_lower(out.fig.data[i][1]) \notin InvalidTokens

\* The production_companies tokens companywrtgenre groups are filtered.
CompanywrtgenreTokensValid ==
    out.fn = "companywrtgenre" =>
        \A i \in 1..Len(out.fig.data) :
            str_lower(out.fig.data[i][1]) \notin InvalidTokens

-----------------------------------------------------------------------------
(* Company aliases *)

\* company_heatmap's target_studios, in dict order: <<studio, variants>>.
target_studios ==
    << <<"Universal Pictures", <<"Universal Pictures", "Universal Studios", "Universal Entertainment">> >>,
       <<"Paramount Pictures", <<"Paramount Pictures", "Paramount", "Paramount Studios">> >>,
       <<"Warner Bros. Pictures", <<"Warner Bros.", "Warner Brothers", "Warner Bros. Pictures", "Warner Bros. Entertainment">> >>,
       <<"Walt Disney Studios", <<"Walt Disney Pictures", "Disney", "Walt Disney Studios", "Walt Disney Productions">> >>,
       <<"Sony Pictures", <<"Sony Pictures", "Columbia Pictures", "Sony Pictures Entertainment", "TriStar Pictures">> >>,
       <<"Lionsgate", <<"Lionsgate", "Lions Gate Entertainment", "Lionsgate Films">> >>,
       <<"20th Century Studios", <<"20th Century Fox", "20th Century Studios", "Twentieth Century Fox">> >>,
       <<"DreamWorks Studios", <<"DreamWorks", "DreamWorks Pictures", "DreamWorks Studios">> >>,
       <<"Marvel Studios", <<"Marvel Studios", "Marvel Entertainment", "Marvel">> >>,
       <<"Pixar Animation", <<"Pixar", "Pixar Animation Studios">> >> >>

\* create_company_sankey_chart's company_aliases, in dict order.
company_aliases ==
    << <<"Universal Pictures", <<"Universal Pictures", "Universal Studios", "Universal Entertainment">> >>,
       <<"Paramount Pictures", <<"Paramount Pictures", "Paramount", "Paramount Studios">> >>,
       <<"Warner Bros. Pictures", <<"Warner Bros.", "Warner Brothers", "Warner Bros. Pictures", "Warner Bros. Entertainment">> >>,
       <<"Walt Disney Studios", <<"Walt Disney Pictures", "Disney", "Walt Disney Studios", "Walt Disney Productions">> >>,
       <<"Sony Pictures", <<"Sony Pictures", "Columbia Pictures", "Sony Pictures Entertainment", "TriStar Pictures">> >>,
       <<"Lionsgate", <<"Lionsgate", "Lions Gate Entertainment", "Lionsgate Films">> >>,
       <<"20th Century Studios", <<"20th Century Fox", "20th Century Studios", "Twentieth Century Fox">> >>,
       <<"DreamWorks Studios", <<"DreamWorks", "DreamWorks Pictures", "DreamWorks Studios">> >>,
       <<"Amazon MGM Studios", <<"MGM", "Metro-Goldwyn-Mayer", "Amazon Studios", "Amazon MGM Studios">> >>,
       <<"Marvel Studios", <<"Marvel Studios", "Marvel Entertainment", "Marvel">> >>,
       <<"Pixar Animation", <<"Pixar", "Pixar Animation Studios">> >> >>

Range(s) == {s[i] : i \in 1..Len(s)}

\* The entries of an alias table that list the name among their variants.
EntriesListing(table, name) == {i \in 1..Len(table) : name \in Range(table[i][2])}

Max(K) == CHOOSE m \in K : \A k \in K : k <= m

\* The text of a cell as one dict key: the word of a one-word string.
IsName(c) == IsStr(c) /\ Len(c.v) = 1

\* A lookup that returns the raw value when the name is no key.
studio_map_passthrough(c) ==
    IF IsName(c) /\ EntriesListing(target_studios, c.v[1]) # {}
    THEN S(<<target_studios[Max(EntriesListing(target_studios, c.v[1]))][1]>>)
    ELSE c

\* Series.map(studio_map) on one cell, studio_map being the dict
\* {alias: studio} built from target_studios (a later entry wins): the
\* studio of a listed alias, NaN for any other value.
studio_map(c) ==
    IF IsName(c) /\ EntriesListing(target_studios, c.v[1]) # {}
    THEN S(<<target_studios[Max(EntriesListing(target_studios, c.v[1]))][1]>>)
    ELSE Na

\* company_aliases.get(selected_company, [selected_company]): the listed
\* variants of a canonical name, the name itself for any other.
aliases_of(selected_company) ==
    IF \E i \in 1..Len(company_aliases) : company_aliases[i][1] = selected_company
    THEN {S(<<a>>) : a \in Range(company_aliases[
            CHOOSE i \in 1..Len(company_aliases) : company_aliases[i][1] = selected_company][2])}
    ELSE {S(<<selected_company>>)}

-----------------------------------------------------------------------------
(* tabs/genre.py: company_heatmap *)

\* update_genre_plots: the rows of the selected genre, matched exactly.
genre_df(rows, selected_genre) ==
    SelectSeq(genre_tab_df(rows), LAMBDA r : r.genres = S(selected_genre))

\* pd.cut(year, bins=range(1980, 2024, 5), right=False) with labels
\* "y-y+4": the 5-year period of a year in 1980..2019, NaN outside.
Period(lo) == [t |-> "period", v |-> <<lo, lo + 4>>]

cut_period(year) ==
    IF IsNum(year) /\ between(year, 1980, 2019)
    THEN Period(1980 + 5 * ((year.v[1] - 1980) \div 5))
    ELSE Na

\* company_heatmap up to the validity filters: rows of the genre in
\* 1980..2024, one per valid production company token.
company_heatmap_tokens(rows, genre) ==
    LET a == SelectSeq(rows, LAMBDA r : between(r.year, 1980, 2024))
        b == explode(a, "genres")
        c == [i \in 1..Len(b) |-> [b[i] EXCEPT !.genres = str_strip(@)]]
        d == SelectSeq(c, LAMBDA r : r.genres = S(genre))
        e == [i \in 1..Len(d) |-> [d[i] EXCEPT !.production_companies = relist(@)]]
        f == explode(e, "production_companies")
        g == [i \in 1..Len(f) |-> [f[i] EXCEPT !.production_companies = str_strip(@)]]
    IN  SelectSeq(g, LAMBDA r : /\ notna(r.production_companies)
                                /\ str_lower(r.production_companies) # S(<<"nan">>)
                                /\ r.production_companies # EmptyStr)

\* df['studio_mapped'] = df['production_companies'].map(studio_map)
company_heatmap_mapped(rows, genre) ==
    LET t == company_heatmap_tokens(rows, genre)
    IN  [i \in 1..Len(t) |-> [studio_mapped |-> studio_map(t[i].production_companies)] @@ t[i]]

\* df = df[df['studio_mapped'].notna()], with the period column.
company_heatmap_kept(rows, genre) ==
    LET k == SelectSeq(company_heatmap_mapped(rows, genre), LAMBDA r : notna(r.studio_mapped))
    IN  [i \in 1..Len(k) |-> [period |-> cut_period(k[i].year)] @@ k[i]]

\* company_heatmap(df, genre): the non-zero cells <<studio, period, count>>
\* of the studio by period table, reindexed to the target studios.
company_heatmap(rows, genre) ==
    IF SelectSeq(rows, LAMBDA r : between(r.year, 1980, 2024) /\ str_strip(r.genres) = S(genre)) = <<>>
    THEN Figure("", {})
    ELSE LET k == company_heatmap_kept(rows, genre)
         IN  Figure("Major Studios Producing",
                    {<<k[i].studio_mapped, k[i].period,
                       Cardinality({j \in 1..Len(k) : /\ k[j].studio_mapped = k[i].studio_mapped
                                                      /\ k[j].period = k[i].period})>> :
                        i \in {j \in 1..Len(k) : notna(k[j].period)}})

-----------------------------------------------------------------------------
(* dash_dashboard.py: create_company_sankey_chart *)

\* A figure drawn in the colours of a plot theme.
Themed(fig, theme) == [kind |-> fig.kind, title |-> fig.title, data |-> fig.data,
                       theme |-> theme]

fav_genres == {S(<<"Comedy">>), S(<<"Action">>), S(<<"Thriller">>), S(<<"Drama">>),
               S(<<"Romance">>)}

\* The rows before the company filter: one per company token of every
\* movie from 1980 on that has companies, genres and a parseable date.
company_sankey_processed(rows) ==
    LET a == SelectSeq(rows, LAMBDA r : r.title # S(<<"IPL 2025">>))
        b == SelectSeq(a, LAMBDA r : notna(r.production_companies) /\ notna(r.genres))
        c == [i \in 1..Len(b) |->
                [year |-> dt_year(to_datetime_coerce(b[i].release_date))] @@
                [b[i] EXCEPT !.release_date = to_datetime_coerce(@)]]
        d == SelectSeq(c, LAMBDA r : notna(r.year))
        e == SelectSeq(d, LAMBDA r : r.year.v[1] >= 1980)
        f == [i \in 1..Len(e) |-> [e[i] EXCEPT !.production_companies = str_split_re(@)]]
        g == explode(f, "production_companies")
    IN  [i \in 1..Len(g) |-> [g[i] EXCEPT !.production_companies = str_strip(@)]]

\* df_filtered: the rows of the selected company or its aliases.
company_sankey_filtered(rows, selected_company) ==
    SelectSeq(company_sankey_processed(rows),
              LAMBDA r : r.production_companies \in aliases_of(selected_company))

\* df_exploded: one row per favourite genre token, with the decade.
company_sankey_exploded(rows, selected_company) ==
    LET f == company_sankey_filtered(rows, selected_company)
        a == [i \in 1..Len(f) |->
                [decade |-> Whole((f[i].year.v[1] \div 10) * 10)] @@
                [f[i] EXCEPT !.genres = str_split_comma(@)]]
        b == explode(a, "genres")
        c == [i \in 1..Len(b) |-> [b[i] EXCEPT !.genres = str_strip(@)]]
    IN  SelectSeq(c, LAMBDA r : r.genres \in fav_genres)

\* decade_label_map[decade]: the node label "1980s (1980–1989)".
decade_label_map(decade) ==
    [t |-> "decade_range", v |-> <<decade.v[1], decade.v[1] + 9>>]

\* create_company_sankey_chart(df, selected_company): the links
\* <<genre, decade label, count>> of the diagram, or a figure that says why
\* there is none.  An empty name stands for None.
create_company_sankey_chart(rows, selected_company, theme) ==
    IF selected_company = ""
    THEN Themed(Figure("Click a production company to see decade-wise genre flow", {}), theme)
    ELSE IF company_sankey_filtered(rows, selected_company) = <<>>
    THEN Themed(Figure("No data available for", {}), theme)
    ELSE IF company_sankey_exploded(rows, selected_company) = <<>>
    THEN Themed(Figure("No genre data available for", {}), theme)
    ELSE LET x == company_sankey_exploded(rows, selected_company)
         IN  Themed(Figure("Decade-wise Genre Targeting",
                    {<<x[i].genres, decade_label_map(x[i].decade),
                       Cardinality({j \in 1..Len(x) : /\ x[j].genres = x[i].genres
                                                      /\ x[j].decade = x[i].decade})>> :
                        i \in 1..Len(x)}), theme)

-----------------------------------------------------------------------------
(* Alias resolution over small tables *)

MaxAliasLen == 4

AliasTexts ==
    {read_csv_cell(p) : p \in SeqsUpTo({"Walt Disney Pictures", "Studio XYZ", ",", " "},
                                       MaxAliasLen)}

SelectedCompanies == {"Walt Disney Studios", "Walt Disney Pictures", "Studio XYZ", ""}

AliasInit ==
    /\ csv \in {<<Row(S(<<"T1">>), S(<<"Drama">>), S(<<"France">>), c,
                     S(<<"1985-07-03">>), Whole(1), Whole(2))>> : c \in AliasTexts}
    /\ df = csv
    /\ plot_themes = InitPlotThemes
    /\ current_theme = "dark"
    /\ choropleth_data = InitChoroplethData
    /\ served = 0
    /\ out = NoOut

\* tabs/genre.py update_genre_plots, the studio heatmap of the genre.
CallCompanyHeatmap ==
    /\ \E g \in SomeGenres :
         out' = [fn |-> "company_heatmap", genre |-> g,
                 tokens |-> company_heatmap_tokens(genre_df(df, g), g),
                 mapped |-> company_heatmap_mapped(genre_df(df, g), g),
                 kept |-> company_heatmap_kept(genre_df(df, g), g),
                 fig |-> company_heatmap(genre_df(df, g), g)]
    /\ UNCHANGED <<csv, df, plot_themes, current_theme, choropleth_data, served>>

\* dash_dashboard.py create_company_sankey_chart(df, selected_company), as
\* update_company_sankey_chart calls it for a clicked company.
CallCompanySankeyChart ==
    /\ \E c \in SelectedCompanies :
         out' = [fn |-> "create_company_sankey_chart", selected_company |-> c,
                 aliases |-> aliases_of(c),
                 processed |-> company_sankey_processed(df),
                 filtered |-> company_sankey_filtered(df, c),
                 fig |-> create_company_sankey_chart(df, c, plot_themes["company_sankey"])]
    /\ UNCHANGED <<csv, df, plot_themes, current_theme, choropleth_data, served>>

AliasNext == CallCompanyHeatmap \/ CallCompanySankeyChart

SpecAlias == AliasInit /\ [][AliasNext]_vars

\* The names listed as a variant in either alias table.
ListedVariants(table) == UNION {Range(table[i][2]) : i \in 1..Len(table)}

\* The canonical name the table lists the variant under.
CanonicalOf(table, name) ==
    table[CHOOSE i \in 1..Len(table) : name \in Range(table[i][2])][1]

-----------------------------------------------------------------------------
(* Country names to ISO codes *)

\* The Python string of a text cell.  A name is one piece, except the
\* names that have a comma in them; "?" is any other text, no country's name.
NameOf(c) ==
    CASE Len(c.v) = 0 -> ""
      [] Len(c.v) = 1 -> c.v[1]
      [] c.v = <<"Korea", ",", " ", "Republic of">> -> "Korea, Republic of"
      [] c.v = <<"Korea", ",", " ", "Democratic People's Republic of">> ->
            "Korea, Democratic People's Republic of"
      [] c.v = <<"Iran", ",", " ", "Islamic Republic of">> -> "Iran, Islamic Republic of"
      [] c.v = <<"Venezuela", ",", " ", "Bolivarian Republic of">> ->
            "Venezuela, Bolivarian Republic of"
      [] c.v = <<"Bolivia", ",", " ", "Plurinational State of">> ->
            "Bolivia, Plurinational State of"
      [] c.v = <<"Taiwan", ",", " ", "Province of China">> -> "Taiwan, Province of China"
      [] c.v = <<"Moldova", ",", " ", "Republic of">> -> "Moldova, Republic of"
      [] OTHER -> "?"

\* pycountry.countries.lookup(name).alpha_3 for the names that reach it: a
\* country's ISO name, official name or code, in any letter case; "" stands
\* for the LookupError any other name raises.
pycountry_lookup(name) ==
    CASE name \in {"France", "france", "FRA", "fra", "FR"} -> "FRA"
      [] name \in {"India", "IND"} -> "IND"
      [] name \in {"Germany", "DEU"} -> "DEU"
      [] name \in {"Canada", "CAN"} -> "CAN"
      [] name \in {"China", "CHN"} -> "CHN"
      [] name \in {"United Kingdom", "united kingdom", "GBR", "gbr", "GB"} -> "GBR"
      [] name \in {"United States", "United States of America", "USA", "usa", "US"} -> "USA"
      [] name \in {"Russian Federation", "RUS"} -> "RUS"
      [] name \in {"Korea, Republic of", "KOR"} -> "KOR"
      [] name \in {"Korea, Democratic People's Republic of", "PRK"} -> "PRK"
      [] name \in {"Czechia", "Czech Republic", "CZE"} -> "CZE"
      [] name \in {"Iran, Islamic Republic of", "IRN"} -> "IRN"
      [] name \in {"Venezuela, Bolivarian Republic of", "VEN"} -> "VEN"
      [] name \in {"Bolivia, Plurinational State of", "BOL"} -> "BOL"
      [] name \in {"Taiwan, Province of China", "TWN"} -> "TWN"
      [] name \in {"Moldova, Republic of", "MDA"} -> "MDA"
      [] name \in {"Viet Nam", "VNM"} -> "VNM"
      [] name \in {"North Macedonia", "MKD"} -> "MKD"
      [] OTHER -> ""

\* A manual table that has an ISO code among its keys, with another code.
manual_mapping_codekey(name) ==
    CASE name = "FRA" -> "FXX"
      [] name \in {"United States", "United States of America"} -> "USA"
      [] name \in {"UK", "United Kingdom"} -> "GBR"
      [] OTHER -> ""

\* manual_mapping of create_choropleth_map's get_iso_alpha3_enhanced; ""
\* for a name that is no key.
manual_mapping_dash(name) ==
    CASE name \in {"United States", "United States of America"} -> "USA"
      [] name \in {"United Kingdom", "UK"} -> "GBR"
      [] name \in {"Russia", "Russian Federation"} -> "RUS"
      [] name \in {"South Korea", "Korea, Republic of"} -> "KOR"
      [] name \in {"North Korea", "Korea, Democratic People's Republic of"} -> "PRK"
      [] name \in {"Czech Republic", "Czechia"} -> "CZE"
      [] name \in {"Iran", "Iran, Islamic Republic of"} -> "IRN"
      [] name \in {"Venezuela", "Venezuela, Bolivarian Republic of"} -> "VEN"
      [] name \in {"Bolivia", "Bolivia, Plurinational State of"} -> "BOL"
      [] name \in {"Taiwan", "Taiwan, Province of China"} -> "TWN"
      [] name \in {"Moldova", "Moldova, Republic of"} -> "MDA"
      [] name \in {"Vietnam", "Viet Nam"} -> "VNM"
      [] name \in {"Macedonia", "North Macedonia",
                   "The Former Yugoslav Republic of Macedonia"} -> "MKD"
      [] OTHER -> ""

\* manual_mapping of tabs/country.py's get_iso_alpha3_enhanced.
manual_mapping_country(name) ==
    CASE name = "United States of America" -> "USA"
      [] name \in {"UK", "United Kingdom"} -> "GBR"
      [] name = "Russia" -> "RUS"
      [] name = "South Korea" -> "KOR"
      [] name = "North Korea" -> "PRK"
      [] name = "Czech Republic" -> "CZE"
      [] name = "Iran" -> "IRN"
      [] name = "Venezuela" -> "VEN"
      [] name = "Bolivia" -> "BOL"
      [] name = "Taiwan" -> "TWN"
      [] name = "Moldova" -> "MDA"
      [] name = "Vietnam" -> "VNM"
      [] name = "Macedonia" -> "MKD"
      [] OTHER -> ""

\* A code mapper that hands back the name it cannot map.
get_iso_alpha3_keepname(c) ==
    IF IsStr(c) /\ manual_mapping_dash(NameOf(c)) # "" THEN S(<<manual_mapping_dash(NameOf(c))>>)
    ELSE IF IsStr(c) /\ pycountry_lookup(NameOf(c)) # "" THEN S(<<pycountry_lookup(NameOf(c))>>)
    ELSE c

\* get_iso_alpha3_enhanced nested in create_choropleth_map: the manual
\* code, else pycountry's, else None (the except clause).
get_iso_alpha3_enhanced_dash(c) ==
    IF IsStr(c) /\ manual_mapping_dash(NameOf(c)) # "" THEN S(<<manual_mapping_dash(NameOf(c))>>)
    ELSE IF IsStr(c) /\ pycountry_lookup(NameOf(c)) # "" THEN S(<<pycountry_lookup(NameOf(c))>>)
    ELSE Na

\* A code mapper without the try: the LookupError of a name pycountry does
\* not know leaves the function.
get_iso_alpha3_enhanced_noexcept(c) ==
    IF IsStr(c) /\ manual_mapping_country(NameOf(c)) # "" THEN S(<<manual_mapping_country(NameOf(c))>>)
    ELSE IF IsStr(c) /\ pycountry_lookup(NameOf(c)) # "" THEN S(<<pycountry_lookup(NameOf(c))>>)
    ELSE Raise("LookupError")

\* tabs/country.py get_iso_alpha3_enhanced
get_iso_alpha3_enhanced(c) ==
    IF IsStr(c) /\ manual_mapping_country(NameOf(c)) # "" THEN S(<<manual_mapping_country(NameOf(c))>>)
    ELSE IF IsStr(c) /\ pycountry_lookup(NameOf(c)) # "" THEN S(<<pycountry_lookup(NameOf(c))>>)
    ELSE Na

\* The tables a code mapper consults for a name, in the order it consults
\* them: pycountry only when the name is no key of manual_mapping.
lookups_dash(c) ==
    IF IsStr(c) /\ manual_mapping_dash(NameOf(c)) # "" THEN <<"manual_mapping">>
    ELSE <<"manual_mapping", "pycountry">>

lookups_country(c) ==
    IF IsStr(c) /\ manual_mapping_country(NameOf(c)) # "" THEN <<"manual_mapping">>
    ELSE <<"manual_mapping", "pycountry">>

\* groupby('production_countries').agg(movie_count=('title', 'count')):
\* per country the number of rows with a title.
CountTitles(rows, k) ==
    Cardinality({i \in 1..Len(rows) : rows[i].production_countries = k /\ notna(rows[i].title)})

\* create_choropleth_map: summary, the per-country table the map draws,
\* without the countries that have no code.
choropleth_summary(rows) ==
    LET d == choropleth_df1(rows)
        all == {[production_countries |-> k, movie_count |-> CountTitles(d, k),
                 iso_alpha |-> get_iso_alpha3_enhanced_dash(k)] : k \in Keys(d, "production_countries")}
    IN  {x \in all : notna(x.iso_alpha)}

\* create_choropleth_map: country_genre, the count of every country and
\* genre pair (rows with a NaN key are in no group).
choropleth_country_genre(rows) ==
    LET d == choropleth_df1(rows)
    IN  {[production_countries |-> d[i].production_countries, genres |-> d[i].genres,
          count |-> Cardinality({j \in 1..Len(d) :
                        /\ d[j].production_countries = d[i].production_countries
                        /\ d[j].genres = d[i].genres})] :
            i \in {j \in 1..Len(d) : notna(d[j].production_countries) /\ notna(d[j].genres)}}

\* create_choropleth_map(df): the map of the summary.
create_choropleth_map(rows, theme) ==
    Themed(Figure("Global Movie Production (Click on countries for genre breakdown)",
                  choropleth_summary(rows)), theme)

\* The value create_choropleth_map stores in the global choropleth_data.
choropleth_store(rows) ==
    [set |-> TRUE, summary |-> choropleth_summary(rows),
     country_genre |-> choropleth_country_genre(rows)]

-----------------------------------------------------------------------------
(* tabs/country.py *)

\* Module level, up to the replace: movies of 1940..2023 with a title,
\* countries and companies; genres and countries become lists; roi is
\* revenue / budget with the infinities replaced by NaN.
country_tab_with_roi(rows) ==
    LET a == [i \in 1..Len(rows) |->
                [year |-> dt_year(to_datetime_coerce(rows[i].release_date))] @@
                [rows[i] EXCEPT !.genres = str_split_re(fillna_empty(@))]]
        b == SelectSeq(a, LAMBDA r : between(r.year, 1940, 2023))
        c == SelectSeq(b, LAMBDA r :
                r.title \notin {S(<<"IPL 2025">>), S(<<"TikTok Rizz Party">>)})
        d == SelectSeq(c, LAMBDA r : /\ notna(r.title)
                                     /\ notna(r.production_countries)
                                     /\ notna(r.production_companies))
        e == [i \in 1..Len(d) |->
                [roi |-> truediv(d[i].revenue, d[i].budget)] @@
                [d[i] EXCEPT !.production_countries = str_split_re(@)]]
    IN  replace_inf(e)

\* Module level: the tab's table, without the rows that have no roi.
country_tab_df(rows) == SelectSeq(country_tab_with_roi(rows), LAMBDA r : notna(r.roi))

\* get_choropleth_and_genre, preprocessing: genres, already lists, become
\* NaN under .str.split; the countries are exploded and stripped.
country_choropleth_exploded(rows) ==
    LET a == SelectSeq(rows, LAMBDA r : notna(r.production_countries))
        b == [i \in 1..Len(a) |-> [a[i] EXCEPT !.genres = str_split_re(@)]]
        c == explode(explode(b, "production_countries"), "genres")
    IN  [i \in 1..Len(c) |-> [c[i] EXCEPT !.production_countries = str_strip(@)]]

\* get_choropleth_and_genre(df): the map of the per-country summary.
get_choropleth_and_genre(rows) ==
    LET d == country_choropleth_exploded(rows)
        all == {[production_countries |-> k, movie_count |-> CountTitles(d, k),
                 iso_alpha |-> get_iso_alpha3_enhanced(k)] : k \in Keys(d, "production_countries")}
    IN  Figure("Global Movie Production", {x \in all : notna(x.iso_alpha)})

\* get_genre_bar_by_country, the rows of the country, one per genre token.
genre_bar_rows(rows, country) ==
    LET a == explode(explode(rows, "production_countries"), "genres")
        b == [i \in 1..Len(a) |->
                [a[i] EXCEPT !.production_countries = str_strip(@),
                             !.genres = str_strip(@)]]
    IN  SelectSeq(b, LAMBDA r : r.production_countries = S(country))

\* get_genre_bar_by_country(df, country): the 15 most frequent genres.
get_genre_bar_by_country(rows, country) ==
    {Figure("Top Genres in", d) : d \in value_counts_top(genre_bar_rows(rows, country), "genres", 15)}

-----------------------------------------------------------------------------
(* SpecGeo: one record with its production_countries drawn from all short *)
(* texts, taken through the code mappers and the tables built on them.    *)

MaxGeoLen == 3

GeoCountryTexts ==
    {read_csv_cell(p) : p \in SeqsUpTo({"France", "Atlantis", "United Kingdom", "UK", ","}, MaxGeoLen)}

GeoGenreTexts == {Na, S(<<"Drama">>), S(<<"Drama", ",", " ", "Action">>)}

GeoCountries == {<<"France">>, <<"Atlantis">>}

GeoInit ==
    /\ csv \in {<<Row(S(<<"T1">>), g, c, S(<<"Lionsgate">>), S(<<"1985-07-03">>),
                     Whole(1), Whole(2))>> : g \in GeoGenreTexts, c \in GeoCountryTexts}
    /\ df = csv
    /\ plot_themes = InitPlotThemes
    /\ current_theme = "dark"
    /\ choropleth_data = InitChoroplethData
    /\ served = 0
    /\ out = NoOut

Flip(theme) == IF theme = "dark" THEN "light" ELSE "dark"

\* dash_dashboard.py toggle_choropleth_map_theme(n_clicks), n_clicks > 0:
\* the plot's theme flips and the map is drawn again, which stores its
\* tables in choropleth_data.
GeoToggleChoroplethMapTheme ==
    /\ plot_themes' = [plot_themes EXCEPT !["choropleth_map"] = Flip(@)]
    /\ choropleth_data' = choropleth_store(df)
    /\ out' = [fn |-> "create_choropleth_map",
               exploded |-> choropleth_df1(df),
               fig |-> create_choropleth_map(df, plot_themes'["choropleth_map"])]
    /\ UNCHANGED <<csv, df, current_theme, served>>

\* tabs/country.py get_choropleth_and_genre on the tab's table.
CallGetChoroplethAndGenre ==
    /\ out' = [fn |-> "get_choropleth_and_genre",
               exploded |-> country_choropleth_exploded(country_tab_df(df)),
               fig |-> get_choropleth_and_genre(country_tab_df(df))]
    /\ UNCHANGED <<csv, df, plot_themes, current_theme, choropleth_data, served>>

\* tabs/country.py update_genre_bar_on_click for a clicked country.
GeoUpdateGenreBarOnClick ==
    /\ \E c \in GeoCountries :
         \E f \in get_genre_bar_by_country(country_tab_df(df), c) :
            out' = [fn |-> "get_genre_bar_by_country", country |-> c,
                    exploded |-> genre_bar_rows(country_tab_df(df), c), fig |-> f]
    /\ UNCHANGED <<csv, df, plot_themes, current_theme, choropleth_data, served>>

GeoNext ==
    \/ GeoToggleChoroplethMapTheme
    \/ CallGetChoroplethAndGenre
    \/ GeoUpdateGenreBarOnClick

SpecGeo == GeoInit /\ [][GeoNext]_vars

\* The country has no ISO code: neither manual table nor pycountry knows it.
Unmapped(c) == ~IsName(c) \/ c.v[1] \in {"Atlantis"}

\* C4: a record whose country name cannot be mapped to an ISO code is absent
\* from the choropleth's table and a record whose name can be mapped is in
\* it; the unmapped record is still counted in the country by genre table
\* under each of its genres, and in the genre counts of its country; the
\* function returns its figure, never an error.
C4_UnmappedCountry ==
    /\ out.fn \in {"create_choropleth_map", "get_choropleth_and_genre"} =>
        /\ out.fig.kind = "figure"
        /\ \A i \in 1..Len(out.exploded) :
            LET c == out.exploded[i].production_countries
            IN  notna(c) =>
                  ((\E x \in out.fig.data : x.production_countries = c) <=> ~Unmapped(c))
        /\ \A x \in out.fig.data : notna(x.iso_alpha) /\ x.iso_alpha # x.production_countries
    /\ out.fn = "create_choropleth_map" =>
        /\ choropleth_data.set /\ choropleth_data.summary = out.fig.data
        /\ \A i \in 1..Len(out.exploded) :
            LET r == out.exploded[i]
            IN  (notna(r.production_countries) /\ notna(r.genres)) =>
                  \E y \in choropleth_data.country_genre :
                     /\ y.production_countries = r.production_countries
                     /\ y.genres = r.genres
                     /\ y.count >= 1
    /\ out.fn = "get_genre_bar_by_country" =>
        /\ out.fig.kind = "figure"
        /\ \A i \in 1..Len(out.exploded) :
            notna(out.exploded[i].genres) =>
                \E k \in 1..Len(out.fig.data) : out.fig.data[k][1] = out.exploded[i].genres

\* A record produced in Atlantis and France went through the choropleth:
\* France is on the map, Atlantis is not, both are in the genre table.
C4_Witness ==
    /\ out.fn = "create_choropleth_map"
    /\ \E x \in out.fig.data : x.production_countries = S(<<"France">>)
    /\ \A x \in out.fig.data : x.production_countries # S(<<"Atlantis">>)
    /\ \E y \in choropleth_data.country_genre :
          y.production_countries = S(<<"Atlantis">>) /\ y.genres = S(<<"Drama">>)

-----------------------------------------------------------------------------
(* Return on investment and the top movies *)

\* topwrtroi(df, company_name): the five movies of the company with the
\* highest roi, drawn lowest first; ValueError when none has one.
topwrtroi_top(rows, company_name) ==
    LET a == explode(rows, "production_companies")
        b == [i \in 1..Len(a) |-> [a[i] EXCEPT !.production_companies = str_strip(@)]]
        c == SelectSeq(b, LAMBDA r : str_lower(r.production_companies) = S(LowerPieces(company_name)))
        d == SelectSeq(c, LAMBDA r : notna(r.title) /\ notna(r.roi))
    IN  {FirstN(x, 5) : x \in sort_values_desc(d, "roi")}

topwrtroi(rows, company_name) ==
    UNION {IF top = <<>> THEN {Raise("ValueError")}
           ELSE {Figure("Top 5 Movies by ROI", [i \in 1..Len(x) |-> <<x[i].title, x[i].roi>>]) :
                    x \in sort_values_asc(top, "roi")} :
           top \in topwrtroi_top(rows, company_name)}

\* get_top10_bar_chart(df, country, feature) of tabs/country.py: the ten
\* movies of the country with the highest value of the feature.
\* get_top10_bar_chart, preprocessing: one row per country of the list.
top10_bar_exploded(rows) ==
    LET a == explode(rows, "production_countries")
    IN  [i \in 1..Len(a) |-> [a[i] EXCEPT !.production_countries = str_strip(@)]]

get_top10_bar_chart(rows, country, feature) ==
    LET b == top10_bar_exploded(rows)
        c == SelectSeq(b, LAMBDA r : r.production_countries = S(country) /\ notna(r[feature]))
    IN  {IF x = <<>> THEN Figure("No data for", <<>>)
         ELSE Figure("Top 10 Movies in",
                     [i \in 1..Len(FirstN(x, 10)) |-> <<x[i].title, x[i][feature]>>]) :
            x \in sort_values_desc(c, feature)}

\* create_top10_movies_plot, preprocessing up to the replace: one row per
\* country of every titled movie, with its roi.
top10_with_roi(rows) ==
    LET a == SelectSeq(rows, LAMBDA r :
                r.title \notin {S(<<"IPL 2025">>), S(<<"TikTok Rizz Party">>)})
        b == SelectSeq(a, LAMBDA r : notna(r.title) /\ notna(r.production_countries))
        c == explode([i \in 1..Len(b) |-> [b[i] EXCEPT !.production_countries = str_split_re(@)]],
                     "production_countries")
        d == [i \in 1..Len(c) |->
                [roi |-> truediv(c[i].revenue, c[i].budget)] @@
                [c[i] EXCEPT !.production_countries = str_strip(@)]]
    IN  replace_inf(d)

\* df_processed: the rows that have a roi.
top10_processed(rows) == SelectSeq(top10_with_roi(rows), LAMBDA r : notna(r.roi))

\* create_top10_movies_plot(df, country, feature)
create_top10_movies_plot(rows, country, feature, theme) ==
    LET c == SelectSeq(top10_processed(rows),
                       LAMBDA r : r.production_countries = S(country) /\ notna(r[feature]))
    IN  {IF x = <<>> THEN Figure("No data available for", <<>>)
         ELSE Themed(Figure("Top 10 Movies in",
                     [i \in 1..Len(FirstN(x, 10)) |-> <<x[i].title, x[i][feature]>>]), theme) :
            x \in sort_values_desc(c, feature)}

-----------------------------------------------------------------------------
(* SpecRoi: two records, the first with budget and revenue drawn from the *)
(* small amounts and null, taken through the three roi computations and   *)
(* the rankings that read the column.                                     *)

MaxAmount == 2

Amounts == {Na} \cup {Whole(n) : n \in 0..MaxAmount}

RoiCountries == {<<"France">>, <<"Atlantis">>}

Features == {"revenue", "budget", "roi", "popularity"}

RoiInit ==
    /\ csv \in {<<Row(S(<<"T1">>), S(<<"Drama">>), S(<<"France">>), S(<<"Lionsgate">>),
                     S(<<"1985-07-03">>), b, r),
                 Row(S(<<"T2">>), S(<<"Drama">>), S(<<"France">>), S(<<"Lionsgate">>),
                     S(<<"1999-12-31">>), Whole(100), Whole(200))>> : b \in Amounts, r \in Amounts}
    /\ df = csv
    /\ plot_themes = InitPlotThemes
    /\ current_theme = "dark"
    /\ choropleth_data = InitChoroplethData
    /\ served = 0
    /\ out = NoOut

\* tabs/company.py topwrtroi on the tab's table.
CallTopwrtroi ==
    /\ \E c \in SomeCompanies : \E f \in topwrtroi(company_tab_df(df), c) :
         out' = [fn |-> "topwrtroi", table |-> company_tab_df(df), fig |-> f]
    /\ UNCHANGED <<csv, df, plot_themes, current_theme, choropleth_data, served>>

\* tabs/country.py update_top10_bar_chart(selected_country, selected_feature)
UpdateTop10BarChart ==
    /\ \E c \in RoiCountries, feature \in Features :
         \E f \in get_top10_bar_chart(country_tab_df(df), c, feature) :
            out' = [fn |-> "get_top10_bar_chart", country |-> c, feature |-> feature,
                    table |-> country_tab_with_roi(df),
                    exploded |-> top10_bar_exploded(country_tab_df(df)), fig |-> f]
    /\ UNCHANGED <<csv, df, plot_themes, current_theme, choropleth_data, served>>

\* What triggered update_top10_movies_graph: the country dropdown (or the
\* initial call), a feature button, or the plot's theme toggle.
Top10Triggers == {"top10-country-dropdown", "btn-revenue", "btn-budget", "btn-roi",
                  "btn-popularity", "top10_movies-theme-toggle"}

\* A callback whose feature falls back to roi.
Top10FeatureElseRoi(trigger) ==
    CASE trigger = "btn-budget" -> "budget"
      [] trigger = "btn-revenue" -> "revenue"
      [] trigger = "btn-popularity" -> "popularity"
      [] OTHER -> "roi"

Top10Feature(trigger) ==
    CASE trigger = "btn-budget" -> "budget"
      [] trigger = "btn-roi" -> "roi"
      [] trigger = "btn-popularity" -> "popularity"
      [] OTHER -> "revenue"

\* dash_dashboard.py update_top10_movies_graph: a click on the theme toggle
\* flips the plot's theme; the feature is the clicked button's, revenue
\* otherwise.
UpdateTop10MoviesGraph ==
    /\ \E c \in RoiCountries, trigger \in Top10Triggers :
        /\ plot_themes' = IF trigger = "top10_movies-theme-toggle"
                          THEN [plot_themes EXCEPT !["top10_movies"] = Flip(@)]
                          ELSE plot_themes
        /\ \E f \in create_top10_movies_plot(df, c, Top10Feature(trigger),
                                             plot_themes'["top10_movies"]) :
             out' = [fn |-> "create_top10_movies_plot", country |-> c,
                     trigger |-> trigger, feature |-> Top10Feature(trigger),
                     table |-> top10_with_roi(df),
                     exploded |-> top10_with_roi(df), fig |-> f]
    /\ UNCHANGED <<csv, df, current_theme, choropleth_data, served>>

RoiNext == CallTopwrtroi \/ UpdateTop10BarChart \/ UpdateTop10MoviesGraph

SpecRoi == RoiInit /\ [][RoiNext]_vars

\* C5: in every table that carries roi, roi is revenue / budget when both
\* are present and budget is not 0 (200 / 100 gives 2) and null otherwise,
\* no cell is infinite, and every value a ranking plots is a finite number.
C5_RoiFinite ==
    out.fn \in {"topwrtroi", "get_top10_bar_chart", "create_top10_movies_plot"} =>
        /\ \A i \in 1..Len(out.table) :
            LET r == out.table[i]
            IN  /\ IF IsNum(r.revenue) /\ IsNum(r.budget) /\ r.budget.v[1] # 0
                   THEN /\ IsNum(r.roi)
                        /\ r.roi.v[1] * r.budget.v[1] = r.revenue.v[1] * r.roi.v[2]
                   ELSE r.roi = Na
                /\ (r.revenue = Whole(200) /\ r.budget = Whole(100)) => r.roi = Num(2, 1)
                /\ \A f \in DOMAIN r : r[f].t # "inf"
        /\ out.fig.kind = "figure" =>
            \A k \in 1..Len(out.fig.data) : IsNum(out.fig.data[k][2])

\* A record with revenue 2 and budget 0 went through topwrtroi: its roi is
\* null and the ranking shows only the other record, whose roi is 2.
C5_Witness ==
    /\ out.fn = "topwrtroi"
    /\ \E i \in 1..Len(out.table) :
          /\ out.table[i].revenue = Whole(2) /\ out.table[i].budget = Whole(0)
          /\ out.table[i].roi = Na
    /\ out.fig.kind = "figure"
    /\ out.fig.data = << <<S(<<"T2">>), Num(2, 1)>> >>

-----------------------------------------------------------------------------
(* Top-N selections over grouped counts *)

\* Every <<key, count>> pair of a grouped count.
Groups(rows, col) == {<<k, Count(rows, col, k)>> : k \in Keys(rows, col)}

\* create_company_donut_chart, preprocessing: one row per company token.
company_donut_rows(rows) ==
    LET a == SelectSeq(rows, LAMBDA r : r.title # S(<<"IPL 2025">>))
        b == SelectSeq(a, LAMBDA r : notna(r.production_companies))
        c == explode([i \in 1..Len(b) |-> [b[i] EXCEPT !.production_companies = str_split_re(@)]],
                     "production_companies")
    IN  [i \in 1..Len(c) |-> [c[i] EXCEPT !.production_companies = str_strip(@)]]

\* create_company_donut_chart(df): the 8 companies with the most movies.
create_company_donut_chart(rows, theme) ==
    {Themed(Figure("Top 8 Production Companies by Movie Count", FirstN(g, 8)), theme) :
        g \in groupby_size_sorted(company_donut_rows(rows), "production_companies")}

\* top_production_companies_donut of tabs/country.py, the rows counted:
\* one per valid company token of the movies of the country.
country_donut_rows(rows, country) ==
    LET a == explode([i \in 1..Len(rows) |-> [rows[i] EXCEPT !.production_countries = relist(@)]],
                     "production_countries")
        b == [i \in 1..Len(a) |->
                [a[i] EXCEPT !.production_countries = str_strip(@),
                             !.production_companies = relist(@)]]
        c == explode(b, "production_companies")
        d == [i \in 1..Len(c) |-> [c[i] EXCEPT !.production_companies = str_strip(@)]]
        e == SelectSeq(d, LAMBDA r : /\ notna(r.production_companies)
                                     /\ str_lower(r.production_companies) \notin InvalidTokens)
    IN  SelectSeq(e, LAMBDA r : r.production_countries = S(country))

\* top_production_companies_donut(df, country): the 7 most frequent
\* companies, or an empty untitled pie when the country has no rows.
top_production_companies_donut(rows, country) ==
    IF country_donut_rows(rows, country) = <<>>
    THEN {Figure("", <<>>)}
    ELSE {Figure("Top 7 Production Companies", d) :
            d \in value_counts_top(country_donut_rows(rows, country), "production_companies", 7)}

\* A decade label that rounds the year up to the next ten.
DecadeRoundedUp(y) == [t |-> "decade", v |-> <<((y + 9) \div 10) * 10>>]

\* (year // 10 * 10).astype('Int64').astype(str) + 's': the label "1980s".
Decade(y) == [t |-> "decade", v |-> <<(y \div 10) * 10>>]

\* sankey of tabs/company.py, the rows ranked: one per genre token of the
\* company's movies of 1980..2023 that have a release date.
sankey_rows(rows, company_name) ==
    LET a == SelectSeq(rows, LAMBDA r : between(r.year, 1980, 2023))
        b == explode(a, "production_companies")
        c == [i \in 1..Len(b) |-> [b[i] EXCEPT !.production_companies = str_strip(@)]]
        d == SelectSeq(c, LAMBDA r : str_lower(r.production_companies) = S(LowerPieces(company_name)))
        e == [i \in 1..Len(d) |-> [d[i] EXCEPT !.release_date = to_datetime_coerce(@)]]
        f == SelectSeq(e, LAMBDA r : notna(r.release_date))
        g == [i \in 1..Len(f) |-> [decade |-> Decade(f[i].release_date.v[1])] @@ f[i]]
        h == explode(g, "genres")
    IN  [i \in 1..Len(h) |-> [h[i] EXCEPT !.genres = str_strip(@)]]

\* top_genres = df['genres'].value_counts().nlargest(5)
sankey_top_genres(rows, company_name) ==
    value_counts_top(sankey_rows(rows, company_name), "genres", 5)

\* sankey(df, company_name): the links <<genre, decade, count>> of the
\* company's five most frequent genres.
sankey(rows, company_name) ==
    {LET x == SelectSeq(sankey_rows(rows, company_name),
                        LAMBDA r : \E k \in 1..Len(top) : top[k][1] = r.genres)
     IN  Figure("Flow for",
                {<<x[i].genres, x[i].decade,
                   Cardinality({j \in 1..Len(x) : /\ x[j].genres = x[i].genres
                                                  /\ x[j].decade = x[i].decade})>> :
                    i \in 1..Len(x)}) :
        top \in sankey_top_genres(rows, company_name)}

-----------------------------------------------------------------------------
(* SpecTopN: two records, the keys of the first drawn from all short    *)
(* texts, taken through the three top-N selections.                     *)

MaxKeysLen == 4

NineKeys ==
    <<"I", ",", " ", "H", ",", " ", "G", ",", " ", "F", ",", " ", "E", ",", " ",
      "D", ",", " ", "C", ",", " ", "B", ",", " ", "A">>

KeyTexts == {read_csv_cell(p) : p \in SeqsUpTo({"A", "B", ",", " "}, MaxKeysLen)}

SecondKeyTexts == {S(<<"A">>), S(<<"B", ",", " ", "A">>), S(NineKeys)}

TopNInit ==
    /\ csv \in {<<Row(S(<<"T1">>), k1, S(<<"France">>), k1, S(<<"1985-07-03">>),
                     Whole(1), Whole(2)),
                 Row(S(<<"T2">>), k2, S(<<"France">>), k2, S(<<"1999-12-31">>),
                     Whole(1), Whole(2))>> : k1 \in KeyTexts, k2 \in SecondKeyTexts}
    /\ df = csv
    /\ plot_themes = InitPlotThemes
    /\ current_theme = "dark"
    /\ choropleth_data = InitChoroplethData
    /\ served = 0
    /\ out = NoOut

\* dash_dashboard.py create_company_donut_chart(df)
CallCompanyDonutChart ==
    /\ \E f \in create_company_donut_chart(df, plot_themes["company_donut"]) :
         out' = [fn |-> "create_company_donut_chart", n |-> 8, top |-> f.data,
                 groups |-> Groups(company_donut_rows(df), "production_companies"), fig |-> f]
    /\ UNCHANGED <<csv, df, plot_themes, current_theme, choropleth_data, served>>

\* tabs/country.py top_production_companies_donut(genre_df, 'France')
CallCountryDonut ==
    /\ \E f \in top_production_companies_donut(country_tab_df(df), <<"France">>) :
         out' = [fn |-> "top_production_companies_donut", n |-> 7, top |-> f.data,
                 groups |-> Groups(country_donut_rows(country_tab_df(df), <<"France">>),
                                   "production_companies"),
                 fig |-> f]
    /\ UNCHANGED <<csv, df, plot_themes, current_theme, choropleth_data, served>>

\* tabs/company.py sankey(genre_df, company_name) for a company of the table
CallSankey ==
    /\ \E c \in {<<"A">>, <<"B">>} :
        \E top \in sankey_top_genres(company_tab_df(df), c) :
          \E f \in sankey(company_tab_df(df), c) :
            out' = [fn |-> "sankey", n |-> 5, top |-> top,
                    groups |-> Groups(sankey_rows(company_tab_df(df), c), "genres"),
                    fig |-> f]
    /\ UNCHANGED <<csv, df, plot_themes, current_theme, choropleth_data, served>>

TopNNext == CallCompanyDonutChart \/ CallCountryDonut \/ CallSankey

SpecTopN == TopNInit /\ [][TopNNext]_vars

\* <<k1, c1>> ranks before <<k2, c2>>: a higher count, or the same count
\* and a smaller key.
RanksBefore(a, b) == a[2] > b[2] \/ (a[2] = b[2] /\ CellLess(a[1], b[1]))

\* The selection has at most n rows, in count-descending order.
TopNSortedByCount ==
    out.fn \in {"create_company_donut_chart", "top_production_companies_donut", "sankey"} =>
        /\ Len(out.top) <= out.n
        /\ \A i, j \in 1..Len(out.top) : i < j => out.top[i][2] >= out.top[j][2]

\* C6: every top-N selection over a grouped count has at most N rows, is
\* sorted by count descending with equal counts in ascending key order, and
\* selects the N groups that rank first in that order.
C6_TopNTieBreak ==
    out.fn \in {"create_company_donut_chart", "top_production_companies_donut", "sankey"} =>
        /\ Len(out.top) <= out.n
        /\ \A i, j \in 1..Len(out.top) : i < j => RanksBefore(out.top[i], out.top[j])
        /\ \A g \in out.groups :
             (\A i \in 1..Len(out.top) : out.top[i] # g) =>
                 \A i \in 1..Len(out.top) : RanksBefore(out.top[i], g)

-----------------------------------------------------------------------------
(* tabs/overview.py *)

available_genres ==
    {S(<<"Animation">>), S(<<"Comedy">>), S(<<"Documentary">>), S(<<"Drama">>),
     S(<<"Horror">>), S(<<"Music">>), S(<<"Romance">>), S(<<"Thriller">>)}

\* groupby([c1, c2]).size(): <<k1, k2, count>> for every pair of keys that
\* occurs; rows with a NaN key are in no group.
GroupSize2(x, c1, c2) ==
    {<<x[i][c1], x[i][c2],
       Cardinality({j \in 1..Len(x) : x[j][c1] = x[i][c1] /\ x[j][c2] = x[i][c2]})>> :
        i \in {j \in 1..Len(x) : notna(x[j][c1]) /\ notna(x[j][c2])}}

\* get_movies_per_year(df): the number of rows per year of 1940..2023.
get_movies_per_year(rows) ==
    LET a == SelectSeq(rows, LAMBDA r : between(r.year, 1940, 2023))
    IN  Figure("Number of Movies Released Per Year", Groups(a, "year"))

\* get_genre_sunburst(df, start_year, end_year, genres): the count of
\* every year and genre pair, or a titled empty chart when there is none.
get_genre_sunburst(rows, start_year, end_year, genres) ==
    LET a == [i \in 1..Len(rows) |->
                [rows[i] EXCEPT !.release_date = to_datetime_coerce(@),
                                !.year = dt_year(to_datetime_coerce(rows[i].release_date))]]
        b == SelectSeq(a, LAMBDA r : between(r.year, start_year, end_year))
        c == SelectSeq(b, LAMBDA r : notna(r.year) /\ notna(r.genres))
        d == explode([i \in 1..Len(c) |-> [genre_list |-> split_strip_list(c[i].genres)] @@ c[i]],
                     "genre_list")
        e == SelectSeq(d, LAMBDA r : r.genre_list \in genres)
    IN  IF GroupSize2(e, "year", "genre_list") = {}
        THEN Figure("No data available for selected genres and years.", {})
        ELSE Figure("Year-wise Genre Evolution", GroupSize2(e, "year", "genre_list"))

\* heatmap(df): the correlation of the numeric columns of the rows that
\* have them all; the figure carries the rows that enter it.
heatmap(rows) ==
    LET a == SelectSeq(rows, LAMBDA r : notna(r.budget) /\ notna(r.revenue) /\ notna(r.popularity))
    IN  Figure("Interactive Correlation Heatmap",
               {<<a[i].budget, a[i].revenue, a[i].popularity>> : i \in 1..Len(a)})

\* streamplot, the rows counted: movies dated 1940..2025, one row per
\* genre token.
streamplot_exploded(rows) ==
    LET a == [i \in 1..Len(rows) |-> [rows[i] EXCEPT !.release_date = to_datetime_coerce(@)]]
        b == SelectSeq(a, LAMBDA r : between(dt_year(r.release_date), 1940, 2025))
        c == [i \in 1..Len(b) |->
                [b[i] EXCEPT !.genres = IF notna(@) THEN split_strip_list(@) ELSE L(<<>>),
                             !.year = dt_year(b[i].release_date)]]
        d == SelectSeq(c, LAMBDA r : notna(r.year))
    IN  explode(d, "genres")

\* streamplot(df): pd.to_datetime(df['release_date']) raises on a date text
\* it cannot parse; otherwise the yearly counts of the eight genres.
streamplot(rows) ==
    IF \E i \in 1..Len(rows) : to_datetime_raises(rows[i].release_date)
    THEN Raise("ValueError")
    ELSE LET g == GroupSize2(streamplot_exploded(rows), "year", "genres")
         IN  Figure("Symmetric Streamgraph of Top 8 Genres Over Time",
                    {x \in g : x[2] \in available_genres})

\* scatterplot(df): the movies of 1990..2025 with positive amounts.
scatterplot(rows) ==
    LET a == SelectSeq(rows, LAMBDA r : between(dt_year(to_datetime_coerce(r.release_date)), 1990, 2025))
        b == SelectSeq(a, LAMBDA r : /\ NumLess(Whole(0), r.revenue)
                                     /\ NumLess(Whole(0), r.budget)
                                     /\ NumLess(Whole(0), r.popularity))
    IN  Figure("Runtime vs Rating of Movies", {b[i].title : i \in 1..Len(b)})

\* The value a callback returns: its figures, or the first exception one
\* of its chart functions raises.
Returned(figs) ==
    IF \E i \in 1..Len(figs) : figs[i].kind = "raise"
    THEN [kind |-> "raise",
          exc |-> figs[CHOOSE i \in 1..Len(figs) :
                         figs[i].kind = "raise" /\ \A j \in 1..(i - 1) : figs[j].kind # "raise"].title,
          figs |-> <<>>]
    ELSE [kind |-> "figures", exc |-> "", figs |-> figs]

-----------------------------------------------------------------------------
(* SpecTabs: tables of a few records with parseable, unparseable and     *)
(* missing dates, taken through the callbacks of the tabs.               *)

MaxTabRows == 2

TabDates == {Na, S(<<"1985-07-03">>), S(<<"2021-01-15">>), S(<<"not a date">>)}

TabRows ==
    {Row(S(<<"T1">>), g, S(<<"France">>), c, d, Whole(1), Whole(2)) :
        g \in {S(<<"Drama">>), S(<<"Drama", ",", " ", "Comedy">>)},
        c \in {Na, S(<<"Lionsgate">>)},
        d \in TabDates}

TabCompanies == {<<"Lionsgate">>, <<"Universal Pictures">>}

TabGenres == {<<"Drama">>, <<"Animation">>}

TabsInit ==
    /\ csv \in {t \in SeqsUpTo(TabRows, MaxTabRows) : t # <<>>}
    /\ df = csv
    /\ plot_themes = InitPlotThemes
    /\ current_theme = "dark"
    /\ choropleth_data = InitChoroplethData
    /\ served = 0
    /\ out = NoOut

\* tabs/overview.py update_genre_plots: the five figures of the tab.
OverviewUpdateGenrePlots ==
    /\ out' = [fn |-> "overview.update_genre_plots",
               result |-> Returned(<<get_movies_per_year(genre_tab_df(df)),
                                     get_genre_sunburst(genre_tab_df(df), 2020, 2023, available_genres),
                                     heatmap(genre_tab_df(df)),
                                     streamplot(genre_tab_df(df)),
                                     scatterplot(genre_tab_df(df))>>)]
    /\ UNCHANGED <<csv, df, plot_themes, current_theme, choropleth_data, served>>

\* tabs/company.py update_static_plots(selected_company, selected_genre):
\* the four figures of the tab, computed in turn.
CompanyUpdateStaticPlots ==
    /\ \E c \in TabCompanies, g \in TabGenres :
        \E fig1 \in companywrtgenre(company_tab_df(df), g),
           fig2 \in sankey(company_tab_df(df), c),
           fig3 \in topwrtroi(company_tab_df(df), c),
           fig4 \in genredist(company_tab_df(df), c) :
             out' = [fn |-> "company.update_static_plots",
                     selected_company |-> c, selected_genre |-> g,
                     result |-> Returned(<<fig1, fig2, fig3, fig4>>)]
    /\ UNCHANGED <<csv, df, plot_themes, current_theme, choropleth_data, served>>

TabsNext ==
    \/ OverviewUpdateGenrePlots
    \/ CompanyUpdateStaticPlots
    \/ UpdateTop10MoviesGraph
    \/ CallCompanySankeyChart

SpecTabs == TabsInit /\ [][TabsNext]_vars

\* C7: when filtering leaves no rows, the chart function returns an
\* explicit no-data chart, an empty chart with a title or message, and
\* raises nothing: the company tab's callback returns its four figures, and
\* every figure without data has a title.
C7_NoDataChart ==
    /\ out.fn = "company.update_static_plots" =>
        /\ out.result.kind = "figures"
        /\ \A i \in 1..Len(out.result.figs) :
             out.result.figs[i].data \in {<<>>, {}} => out.result.figs[i].title # ""
    /\ out.fn = "create_top10_movies_plot" =>
        /\ out.fig.kind = "figure"
        /\ out.fig.data = <<>> => out.fig.title = "No data available for"

\* create_top10_movies_plot returns its titled no-data chart whenever the
\* country has no rows.
Top10NoDataChart ==
    out.fn = "create_top10_movies_plot" =>
        /\ out.fig.kind = "figure"
        /\ out.fig.data = <<>> => out.fig.title = "No data available for"

\* The number of rows of the table whose date parses to the year.
RowsOfYear(rows, y) ==
    Cardinality({i \in 1..Len(rows) :
        Parseable(rows[i].release_date) /\ ParseYear(rows[i].release_date.v[1]) = y})

\* C10: a date text that cannot be parsed gives a null year and raises
\* nothing, and its record is in no year-keyed aggregation: the overview
\* callback returns its figures, movies-per-year counts under each year the
\* rows whose date parses to it, and the sunburst, the streamgraph and the
\* decade Sankey count only such rows.
C10_UnparseableDateExcluded ==
    /\ out.fn = "overview.update_genre_plots" =>
        /\ out.result.kind = "figures"
        /\ \A x \in out.result.figs[1].data :
             x[2] = RowsOfYear(genre_tab_df(csv), x[1].v[1])
        /\ \A x \in out.result.figs[2].data : RowsOfYear(csv, x[1].v[1]) > 0
        /\ \A x \in out.result.figs[4].data : RowsOfYear(csv, x[1].v[1]) > 0
    /\ out.fn = "create_company_sankey_chart" =>
        /\ out.fig.kind = "figure"
        /\ \A x \in out.fig.data :
             \E i \in 1..Len(csv) : /\ Parseable(csv[i].release_date)
                                    /\ (ParseYear(csv[i].release_date.v[1]) \div 10) * 10 = x[2].v[1]

\* Where the date is parsed with errors='coerce' the claim holds: the year
\* is null and the record is left out.
CoercedDateExcluded ==
    /\ out.fn = "overview.update_genre_plots" /\ out.result.kind = "figures" =>
        /\ \A x \in out.result.figs[1].data :
             x[2] = RowsOfYear(genre_tab_df(csv), x[1].v[1])
        /\ \A x \in out.result.figs[2].data : RowsOfYear(csv, x[1].v[1]) > 0
    /\ out.fn = "create_company_sankey_chart" =>
        /\ out.fig.kind = "figure"
        /\ \A x \in out.fig.data :
             \E i \in 1..Len(csv) : /\ Parseable(csv[i].release_date)
                                    /\ (ParseYear(csv[i].release_date.v[1]) \div 10) * 10 = x[2].v[1]


-----------------------------------------------------------------------------
(* dash_dashboard.py: the remaining chart functions.  Each reads its theme *)
(* from the global plot_themes, here the parameter theme.                   *)

\* The {} a chart function returns from its except clause or for no data.
EmptyDict == [kind |-> "dict", title |-> "", data |-> <<>>]

\* column > n on one cell; false for NaN.
gt(c, n) == IsNum(c) /\ c.v[1] > n * c.v[2]

\* create_correlation_heatmap: the rows the correlation matrix is computed
\* from, those with every numeric column present and votes, budget and
\* revenue above 0.
create_correlation_heatmap(rows, theme) ==
    LET x == SelectSeq(rows, LAMBDA r :
                /\ notna(r.vote_average) /\ notna(r.vote_count) /\ notna(r.revenue)
                /\ notna(r.budget) /\ notna(r.popularity)
                /\ gt(r.vote_count, 0) /\ gt(r.budget, 0) /\ gt(r.revenue, 0))
    IN  Themed(Figure("Interactive Correlation Heatmap",
                      [i \in 1..Len(x) |-> <<x[i].vote_average, x[i].vote_count, x[i].budget,
                                             x[i].revenue, x[i].popularity>>]), theme)

\* create_budget_revenue_scatter: one point per row with budget and revenue
\* above 0.
create_budget_revenue_scatter(rows, theme) ==
    LET x == SelectSeq(rows, LAMBDA r : gt(r.budget, 0) /\ gt(r.revenue, 0))
    IN  Themed(Figure("Budget vs Revenue",
                      [i \in 1..Len(x) |-> <<x[i].budget, x[i].revenue>>]), theme)

budget_bins == <<0, 1000000, 10000000, 50000000, 100000000, 200000000, 500000000, 1000000000>>

budget_labels == <<"<1M", "1M-10M", "10M-50M", "50M-100M", "100M-200M", "200M-500M", ">500M">>

\* pd.cut(budget, bins, labels): the label of the interval (lo, hi] the
\* budget is in, 0 (NaN) for a budget in none.
budget_range(c) ==
    IF \E i \in 1..Len(budget_labels) : gt(c, budget_bins[i]) /\ ~gt(c, budget_bins[i + 1])
    THEN CHOOSE i \in 1..Len(budget_labels) : gt(c, budget_bins[i]) /\ ~gt(c, budget_bins[i + 1])
    ELSE 0

RECURSIVE SumCol(_, _)
SumCol(rows, col) ==
    IF rows = <<>> THEN 0 ELSE Head(rows)[col].v[1] + SumCol(Tail(rows), col)

\* create_budget_revenue_bar: per budget range the mean revenue and the
\* number of the movies with budget and revenue above 100000; a range with
\* no movie has mean NaN and count 0.
create_budget_revenue_bar(rows, theme) ==
    LET x == SelectSeq(rows, LAMBDA r : gt(r.budget, 100000) /\ gt(r.revenue, 100000))
        g(i) == SelectSeq(x, LAMBDA r : budget_range(r.budget) = i)
    IN  Themed(Figure("Average Revenue by Budget Range",
                      [i \in 1..Len(budget_labels) |->
                          <<budget_labels[i],
                            truediv(Whole(SumCol(g(i), "revenue")), Whole(Len(g(i)))),
                            Len(g(i))>>]), theme)

\* create_genre_sunburst, its first two statements: they assign to the
\* table it was passed, so release_date becomes a timestamp column and a
\* year column is added to that table.
genre_sunburst_assign(rows) ==
    [i \in 1..Len(rows) |->
        [year |-> dt_year(to_datetime_coerce(rows[i].release_date))] @@
        [rows[i] EXCEPT !.release_date = to_datetime_coerce(@)]]

sunburst_top_genres == {S(<<"Comedy">>), S(<<"Horror">>), S(<<"Animation">>),
                        S(<<"Thriller">>), S(<<"Romance">>), S(<<"Action">>)}

\* create_genre_sunburst: genre_counts, the count of every (year, genre)
\* of 2020..2023 with the genre one of top_genres.
genre_sunburst_counts(rows) ==
    LET a == genre_sunburst_assign(rows)
        b == SelectSeq(a, LAMBDA r : between(r.year, 2020, 2023) /\ notna(r.genres))
        c == explode([i \in 1..Len(b) |->
                        [genre_list |-> split_strip_list(b[i].genres)] @@ b[i]], "genre_list")
        d == SelectSeq(c, LAMBDA r : r.genre_list \in sunburst_top_genres)
    IN  {<<d[i].year, d[i].genre_list,
           Cardinality({j \in 1..Len(d) : d[j].year = d[i].year /\ d[j].genre_list = d[i].genre_list})>> :
            i \in 1..Len(d)}

\* create_genre_sunburst: the figures it can return.  For an empty
\* genre_counts px.sunburst draws an empty chart or raises, depending on
\* the plotly version; the except clause turns a raise into {}.
create_genre_sunburst(rows, theme) ==
    LET fig == Themed(Figure("Year-wise Genre Evolution (2020-2023)",
                             genre_sunburst_counts(rows)), theme)
    IN  IF genre_sunburst_counts(rows) = {} THEN {fig, EmptyDict} ELSE {fig}

selected_countries == {S(<<"United States of America">>), S(<<"United Kingdom">>),
                       S(<<"France">>), S(<<"India">>), S(<<"Germany">>), S(<<"Canada">>),
                       S(<<"China">>)}

\* create_country_genre_pie(df) with no genre given: the share of each
\* selected country in the first genre of the grouped table, {} when that
\* genre has no row.
create_country_genre_pie(rows, theme) ==
    LET x == SelectSeq(country_genre_pie_exploded(rows),
                       LAMBDA r : r.production_countries \in selected_countries)
        y == SelectSeq(x, LAMBDA r : notna(r.genres))
        genre == IF y = <<>> THEN S(<<"Action">>) ELSE SortedKeys(Keys(y, "genres"))[1]
        z == SelectSeq(y, LAMBDA r : r.genres = genre)
    IN  IF z = <<>> THEN EmptyDict
        ELSE Themed(Figure("Top 7 Country Contribution to",
                           <<genre, {<<k, Count(z, "production_countries", k),
                                       truediv(Whole(100 * Count(z, "production_countries", k)),
                                               Whole(Len(z)))>> :
                                        k \in Keys(z, "production_countries")}>>), theme)

\* create_company_genre_chart, preprocessing: one row per company token
\* and genre token of every movie that has both, each stripped.
company_genre_processed(rows) ==
    LET a == SelectSeq(rows, LAMBDA r : r.title # S(<<"IPL 2025">>))
        b == SelectSeq(a, LAMBDA r : notna(r.production_companies) /\ notna(r.genres))
        c == [i \in 1..Len(b) |->
                [b[i] EXCEPT !.production_companies = str_split_re(@),
                             !.genres = str_split_re(@)]]
        d == explode(explode(c, "production_companies"), "genres")
    IN  [i \in 1..Len(d) |->
            [d[i] EXCEPT !.production_companies = str_strip(@), !.genres = str_strip(@)]]

\* create_company_genre_chart(df, selected_company); "" is None.
create_company_genre_chart(rows, selected_company, theme) ==
    IF selected_company = ""
    THEN {Themed(Figure("Click a production company to see genre breakdown", <<>>), theme)}
    ELSE LET f == SelectSeq(company_genre_processed(rows),
                            LAMBDA r : r.production_companies = S(<<selected_company>>))
         IN  IF Keys(f, "genres") = {}
             THEN {Themed(Figure("No genre data available for", <<>>), theme)}
             ELSE {Themed(Figure("Top Genres for", FirstN(g, 10)), theme) :
                      g \in groupby_size_sorted(f, "genres")}


-----------------------------------------------------------------------------
(* dash_dashboard.py: the callbacks.  Each operator named after a callback *)
(* gives the values the callback can return for its inputs, the table and  *)
(* the globals it reads; rows, themes, theme and data are df, plot_themes, *)
(* current_theme and choropleth_data as the callback finds them.           *)

\* A toggle that flips the theme of every plot.
ToggledAllThemes(themes, key, n_clicks) ==
    IF n_clicks > 0 THEN [p \in DOMAIN themes |-> Flip(themes[p])] ELSE themes

\* plot_themes after a toggle callback's first statement: the plot's theme
\* is flipped when the button has been clicked.
ToggledThemes(themes, key, n_clicks) ==
    IF n_clicks > 0 THEN [themes EXCEPT ![key] = Flip(@)] ELSE themes

\* What a plot toggle returns: the redrawn figure and the button's icon
\* and style, which follow the plot's theme.
ToggleResult(fig, t) == [figure |-> fig, button |-> t]

toggle_correlation_heatmap_theme(n_clicks, rows, themes) ==
    LET t == ToggledThemes(themes, "correlation_heatmap", n_clicks)["correlation_heatmap"]
    IN  {ToggleResult(create_correlation_heatmap(rows, t), t)}

toggle_budget_revenue_scatter_theme(n_clicks, rows, themes) ==
    LET t == ToggledThemes(themes, "budget_revenue_scatter", n_clicks)["budget_revenue_scatter"]
    IN  {ToggleResult(create_budget_revenue_scatter(rows, t), t)}

toggle_budget_revenue_bar_theme(n_clicks, rows, themes) ==
    LET t == ToggledThemes(themes, "budget_revenue_bar", n_clicks)["budget_revenue_bar"]
    IN  {ToggleResult(create_budget_revenue_bar(rows, t), t)}

toggle_choropleth_map_theme(n_clicks, rows, themes) ==
    LET t == ToggledThemes(themes, "choropleth_map", n_clicks)["choropleth_map"]
    IN  {ToggleResult(create_choropleth_map(rows, t), t)}

toggle_country_genre_pie_theme(n_clicks, rows, themes) ==
    LET t == ToggledThemes(themes, "country_genre_pie", n_clicks)["country_genre_pie"]
    IN  {ToggleResult(create_country_genre_pie(rows, t), t)}

toggle_genre_sunburst_theme(n_clicks, rows, themes) ==
    LET t == ToggledThemes(themes, "genre_sunburst", n_clicks)["genre_sunburst"]
    IN  {ToggleResult(f, t) : f \in create_genre_sunburst(rows, t)}

\* update_top10_movies_graph(country, ...) triggered by trigger.
update_top10_movies_graph(country, trigger, rows, themes) ==
    LET t == IF trigger = "top10_movies-theme-toggle"
             THEN Flip(themes["top10_movies"]) ELSE themes["top10_movies"]
    IN  create_top10_movies_plot(rows, country, Top10Feature(trigger), t)

\* toggle_top10_movies_theme_button returns the button only.
toggle_top10_movies_theme_button(n_clicks, themes) ==
    {[button |-> ToggledThemes(themes, "top10_movies", n_clicks)["top10_movies"]]}

\* toggle_theme returns the page's and the button's style.
toggle_theme(n_clicks, theme) ==
    {[layout_style |-> IF n_clicks > 0 THEN Flip(theme) ELSE theme]}

\* toggle_company_sankey_theme returns the button only.
toggle_company_sankey_theme(n_clicks, themes) ==
    {[button |-> ToggledThemes(themes, "company_sankey", n_clicks)["company_sankey"]]}

tab_names == <<"overview", "genre", "country", "company">>

selected_tab_name(selected_tab) ==
    IF selected_tab < Len(tab_names) THEN tab_names[selected_tab + 1] ELSE "overview"

\* update_controls returns an empty container for every tab.
update_controls(selected_tab) == {[children |-> <<>>]}

\* The page update_content returns: the tab, the page theme its headings
\* take their colour from, and the tab's figures in the order they are made.
Page(tab, theme, figures) == [tab |-> tab, theme |-> theme, figures |-> figures]

\* update_content(selected_tab, theme_clicks); theme_clicks is not read.
update_content(selected_tab, rows, themes, theme) ==
    CASE selected_tab_name(selected_tab) = "overview" ->
            {Page("overview", theme,
                  <<create_correlation_heatmap(rows, themes["correlation_heatmap"]),
                    create_budget_revenue_scatter(rows, themes["budget_revenue_scatter"]),
                    create_budget_revenue_bar(rows, themes["budget_revenue_bar"])>>)}
      [] selected_tab_name(selected_tab) = "genre" ->
            {Page("genre", theme, <<Themed(a, themes["genre_treemap"]), b>>) :
                a \in create_genre_treemap(rows),
                b \in create_genre_sunburst(rows, themes["genre_sunburst"])}
      [] selected_tab_name(selected_tab) = "country" ->
            {Page("country", theme,
                  <<create_choropleth_map(rows, themes["choropleth_map"]),
                    create_country_genre_pie(rows, themes["country_genre_pie"]), c>>) :
                c \in create_top10_movies_plot(rows, <<"United States of America">>, "revenue",
                                               themes["top10_movies"])}
      [] OTHER ->
            {Page("company", theme,
                  <<a, b, create_company_sankey_chart(rows, "", themes["company_sankey"])>>) :
                a \in create_company_donut_chart(rows, themes["company_donut"]),
                b \in create_company_genre_chart(rows, "", themes["company_genre"])}

\* A style that is always visible.
PopupStyleShown(current_style, theme, display) ==
    [display |-> "block",
     backgroundColor |-> IF current_style = "None" THEN theme ELSE current_style]

\* The style update_genre_popup returns: the one it was given (a new one in
\* the page theme's colours when it was given None) with display set.
PopupStyle(current_style, theme, display) ==
    [display |-> display,
     backgroundColor |-> IF current_style = "None" THEN theme ELSE current_style]

\* update_genre_popup(clickData, close_clicks, current_style) triggered by
\* trigger; clickData is the clicked location's code, "" for None.
update_genre_popup(clickData, trigger, current_style, data, themes, theme) ==
    LET hidden(title) == [figure |-> Figure(title, <<>>),
                          style |-> PopupStyle(current_style, theme, "none")]
        hits == {x \in data.summary : x.iso_alpha = S(<<clickData>>)}
        country == SortedKeys({x.production_countries : x \in hits})[1]
        g == {x \in data.country_genre : x.production_countries = country}
        ks == SortedKeys({x.genres : x \in g})
        cnt == [i \in 1..Len(ks) |-> Whole((CHOOSE x \in g : x.genres = ks[i]).count)]
    IN  IF trigger = "close-button" THEN {hidden("")}
        ELSE IF clickData = "" \/ ~data.set THEN {hidden("")}
        ELSE IF hits = {} THEN {hidden("")}
        ELSE IF g = {} THEN {hidden("No data available")}
        ELSE {[figure |-> Themed(Figure("Top Genres in",
                             <<country, FirstN([i \in 1..Len(ks) |-> <<ks[o[i]], cnt[o[i]].v[1]>>], 10)>>),
                             themes["choropleth_map"]),
               style |-> PopupStyle(current_style, theme, "block")] : o \in sort_desc(cnt)}

\* update_company_genre_chart(clickData, theme_clicks); clickData is the
\* clicked label, "" for None.
update_company_genre_chart(clickData, rows, themes) ==
    create_company_genre_chart(rows, clickData, themes["company_genre"])

update_company_sankey_chart(clickData, rows, themes) ==
    {create_company_sankey_chart(rows, clickData, themes["company_sankey"])}


-----------------------------------------------------------------------------
(* Spec: the dashboard process.  It loads a small table and then serves    *)
(* callbacks, at most MaxServed of them, in any order and from any client. *)

MaxRows == 2

MaxServed == 2

MaxClicks == 2

\* The n_clicks of a button that has been clicked.
Clicks == 1..MaxClicks

MainRows ==
    {Row(S(<<"T1">>), g, S(<<"France">>), S(<<"Lionsgate">>), d,
         Whole(2000000), Whole(4000000)) :
        g \in {Na, S(<<"Action", ",", " ", "Drama">>)},
        d \in {S(<<"2021-01-15">>), S(<<"not a date">>)}}

Tabs == 0..3

DropdownCountries == {<<"France">>, <<"United Kingdom">>}

MapClicks == {"", "FRA", "GBR"}

PopupTriggers == {"choropleth", "close-button"}

PopupStyles == {"None", "dark", "light"}

DonutClicks == {"", "Lionsgate", "Pixar"}

Init ==
    /\ csv \in SeqsUpTo(MainRows, MaxRows) \ {<<>>}
    /\ df = csv
    /\ InitGlobals
    /\ out = NoOut

HandleToggleCorrelationHeatmapTheme ==
    /\ served < MaxServed
    /\ \E n \in Clicks :
        /\ plot_themes' = ToggledThemes(plot_themes, "correlation_heatmap", n)
        /\ \E r \in toggle_correlation_heatmap_theme(n, df, plot_themes) :
             out' = [fn |-> "toggle_correlation_heatmap_theme", args |-> [n_clicks |-> n], result |-> r]
    /\ served' = served + 1
    /\ UNCHANGED <<csv, df, current_theme, choropleth_data>>

HandleToggleBudgetRevenueScatterTheme ==
    /\ served < MaxServed
    /\ \E n \in Clicks :
        /\ plot_themes' = ToggledThemes(plot_themes, "budget_revenue_scatter", n)
        /\ \E r \in toggle_budget_revenue_scatter_theme(n, df, plot_themes) :
             out' = [fn |-> "toggle_budget_revenue_scatter_theme", args |-> [n_clicks |-> n], result |-> r]
    /\ served' = served + 1
    /\ UNCHANGED <<csv, df, current_theme, choropleth_data>>

\* toggle_genre_sunburst_theme draws with create_genre_sunburst(df), which
\* assigns to df.
HandleToggleGenreSunburstTheme ==
    /\ served < MaxServed
    /\ \E n \in Clicks :
        /\ plot_themes' = ToggledThemes(plot_themes, "genre_sunburst", n)
        /\ \E r \in toggle_genre_sunburst_theme(n, df, plot_themes) :
             out' = [fn |-> "toggle_genre_sunburst_theme", args |-> [n_clicks |-> n], result |-> r]
    /\ df' = genre_sunburst_assign(df)
    /\ served' = served + 1
    /\ UNCHANGED <<csv, current_theme, choropleth_data>>

HandleToggleBudgetRevenueBarTheme ==
    /\ served < MaxServed
    /\ \E n \in Clicks :
        /\ plot_themes' = ToggledThemes(plot_themes, "budget_revenue_bar", n)
        /\ \E r \in toggle_budget_revenue_bar_theme(n, df, plot_themes) :
             out' = [fn |-> "toggle_budget_revenue_bar_theme", args |-> [n_clicks |-> n], result |-> r]
    /\ served' = served + 1
    /\ UNCHANGED <<csv, df, current_theme, choropleth_data>>

\* toggle_choropleth_map_theme draws with create_choropleth_map(df), which
\* stores its tables in choropleth_data.
HandleToggleChoroplethMapTheme ==
    /\ served < MaxServed
    /\ \E n \in Clicks :
        /\ plot_themes' = ToggledThemes(plot_themes, "choropleth_map", n)
        /\ \E r \in toggle_choropleth_map_theme(n, df, plot_themes) :
             out' = [fn |-> "toggle_choropleth_map_theme", args |-> [n_clicks |-> n], result |-> r]
    /\ choropleth_data' = choropleth_store(df)
    /\ served' = served + 1
    /\ UNCHANGED <<csv, df, current_theme>>

HandleToggleCountryGenrePieTheme ==
    /\ served < MaxServed
    /\ \E n \in Clicks :
        /\ plot_themes' = ToggledThemes(plot_themes, "country_genre_pie", n)
        /\ \E r \in toggle_country_genre_pie_theme(n, df, plot_themes) :
             out' = [fn |-> "toggle_country_genre_pie_theme", args |-> [n_clicks |-> n], result |-> r]
    /\ served' = served + 1
    /\ UNCHANGED <<csv, df, current_theme, choropleth_data>>

HandleUpdateTop10MoviesGraph ==
    /\ served < MaxServed
    /\ \E c \in DropdownCountries, trigger \in Top10Triggers :
        /\ plot_themes' = IF trigger = "top10_movies-theme-toggle"
                          THEN [plot_themes EXCEPT !["top10_movies"] = Flip(@)]
                          ELSE plot_themes
        /\ \E r \in update_top10_movies_graph(c, trigger, df, plot_themes) :
             out' = [fn |-> "update_top10_movies_graph",
                     args |-> [country |-> c, trigger |-> trigger], result |-> r]
    /\ served' = served + 1
    /\ UNCHANGED <<csv, df, current_theme, choropleth_data>>

HandleToggleTop10MoviesThemeButton ==
    /\ served < MaxServed
    /\ \E n \in Clicks :
        /\ plot_themes' = ToggledThemes(plot_themes, "top10_movies", n)
        /\ \E r \in toggle_top10_movies_theme_button(n, plot_themes) :
             out' = [fn |-> "toggle_top10_movies_theme_button", args |-> [n_clicks |-> n],
                     result |-> r]
    /\ served' = served + 1
    /\ UNCHANGED <<csv, df, current_theme, choropleth_data>>

HandleToggleTheme ==
    /\ served < MaxServed
    /\ \E n \in Clicks :
        /\ current_theme' = (IF n > 0 THEN Flip(current_theme) ELSE current_theme)
        /\ \E r \in toggle_theme(n, current_theme) :
             out' = [fn |-> "toggle_theme", args |-> [n_clicks |-> n], result |-> r]
    /\ served' = served + 1
    /\ UNCHANGED <<csv, df, plot_themes, choropleth_data>>

HandleUpdateControls ==
    /\ served < MaxServed
    /\ \E tab \in Tabs :
        \E r \in update_controls(tab) :
            out' = [fn |-> "update_controls", args |-> [selected_tab |-> tab], result |-> r]
    /\ served' = served + 1
    /\ UNCHANGED <<csv, df, plot_themes, current_theme, choropleth_data>>

\* update_content: the genre tab's sunburst assigns to df, the country
\* tab's map stores its tables in choropleth_data.
HandleUpdateContent ==
    /\ served < MaxServed
    /\ \E tab \in Tabs :
        /\ \E r \in update_content(tab, df, plot_themes, current_theme) :
             out' = [fn |-> "update_content", args |-> [selected_tab |-> tab], result |-> r]
        /\ df' = IF selected_tab_name(tab) = "genre" THEN genre_sunburst_assign(df) ELSE df
        /\ choropleth_data' = IF selected_tab_name(tab) = "country"
                              THEN choropleth_store(df) ELSE choropleth_data
    /\ served' = served + 1
    /\ UNCHANGED <<csv, plot_themes, current_theme>>

HandleUpdateGenrePopup ==
    /\ served < MaxServed
    /\ \E click \in MapClicks, trigger \in PopupTriggers, style \in PopupStyles :
        \E r \in update_genre_popup(click, trigger, style, choropleth_data, plot_themes,
                                    current_theme) :
            out' = [fn |-> "update_genre_popup",
                    args |-> [clickData |-> click, trigger |-> trigger, current_style |-> style],
                    result |-> r]
    /\ served' = served + 1
    /\ UNCHANGED <<csv, df, plot_themes, current_theme, choropleth_data>>

HandleUpdateCompanyGenreChart ==
    /\ served < MaxServed
    /\ \E click \in DonutClicks :
        \E r \in update_company_genre_chart(click, df, plot_themes) :
            out' = [fn |-> "update_company_genre_chart", args |-> [clickData |-> click],
                    result |-> r]
    /\ served' = served + 1
    /\ UNCHANGED <<csv, df, plot_themes, current_theme, choropleth_data>>

HandleUpdateCompanySankeyChart ==
    /\ served < MaxServed
    /\ \E click \in DonutClicks :
        \E r \in update_company_sankey_chart(click, df, plot_themes) :
            out' = [fn |-> "update_company_sankey_chart", args |-> [clickData |-> click],
                    result |-> r]
    /\ served' = served + 1
    /\ UNCHANGED <<csv, df, plot_themes, current_theme, choropleth_data>>

HandleToggleCompanySankeyTheme ==
    /\ served < MaxServed
    /\ \E n \in Clicks :
        /\ plot_themes' = ToggledThemes(plot_themes, "company_sankey", n)
        /\ \E r \in toggle_company_sankey_theme(n, plot_themes) :
             out' = [fn |-> "toggle_company_sankey_theme", args |-> [n_clicks |-> n],
                     result |-> r]
    /\ served' = served + 1
    /\ UNCHANGED <<csv, df, current_theme, choropleth_data>>

Next ==
    \/ HandleToggleCorrelationHeatmapTheme
    \/ HandleToggleBudgetRevenueScatterTheme
    \/ HandleToggleGenreSunburstTheme
    \/ HandleToggleBudgetRevenueBarTheme
    \/ HandleToggleChoroplethMapTheme
    \/ HandleToggleCountryGenrePieTheme
    \/ HandleUpdateTop10MoviesGraph
    \/ HandleToggleTop10MoviesThemeButton
    \/ HandleToggleTheme
    \/ HandleUpdateControls
    \/ HandleUpdateContent
    \/ HandleUpdateGenrePopup
    \/ HandleUpdateCompanyGenreChart
    \/ HandleUpdateCompanySankeyChart
    \/ HandleToggleCompanySankeyTheme

Spec == Init /\ [][Next]_vars

\* What callback fn returns for args when it is the first callback the
\* process serves: the table is as loaded and the globals as imported.
FirstServed(fn, args) ==
    CASE fn = "toggle_correlation_heatmap_theme" ->
            toggle_correlation_heatmap_theme(args.n_clicks, csv, InitPlotThemes)
      [] fn = "toggle_budget_revenue_scatter_theme" ->
            toggle_budget_revenue_scatter_theme(args.n_clicks, csv, InitPlotThemes)
      [] fn = "toggle_genre_sunburst_theme" ->
            toggle_genre_sunburst_theme(args.n_clicks, csv, InitPlotThemes)
      [] fn = "toggle_budget_revenue_bar_theme" ->
            toggle_budget_revenue_bar_theme(args.n_clicks, csv, InitPlotThemes)
      [] fn = "toggle_choropleth_map_theme" ->
            toggle_choropleth_map_theme(args.n_clicks, csv, InitPlotThemes)
      [] fn = "toggle_country_genre_pie_theme" ->
            toggle_country_genre_pie_theme(args.n_clicks, csv, InitPlotThemes)
      [] fn = "update_top10_movies_graph" ->
            update_top10_movies_graph(args.country, args.trigger, csv, InitPlotThemes)
      [] fn = "toggle_top10_movies_theme_button" ->
            toggle_top10_movies_theme_button(args.n_clicks, InitPlotThemes)
      [] fn = "toggle_theme" -> toggle_theme(args.n_clicks, "dark")
      [] fn = "update_controls" -> update_controls(args.selected_tab)
      [] fn = "update_content" ->
            update_content(args.selected_tab, csv, InitPlotThemes, "dark")
      [] fn = "update_genre_popup" ->
            update_genre_popup(args.clickData, args.trigger, args.current_style,
                               InitChoroplethData, InitPlotThemes, "dark")
      [] fn = "update_company_genre_chart" ->
            update_company_genre_chart(args.clickData, csv, InitPlotThemes)
      [] fn = "update_company_sankey_chart" ->
            update_company_sankey_chart(args.clickData, csv, InitPlotThemes)
      [] fn = "toggle_company_sankey_theme" ->
            toggle_company_sankey_theme(args.n_clicks, InitPlotThemes)

\* C8: no chart function assigns to the base table: after any sequence of
\* callbacks df has the columns, column types and values it was loaded
\* with.
C8_BaseTableUnchanged == df = csv

\* C9: what a chart-producing callback returns is determined by the base
\* table and the callback's inputs: it is what the same call returns as
\* the first callback served, whatever callbacks were served before it.
C9_ResultIndependentOfHistory ==
    out.fn # "none" => out.result \in FirstServed(out.fn, out.args)


\* ---------------------------------------------------------------------
\* The two code mappers called on one country name
\* ---------------------------------------------------------------------

MaxMapperCalls == 2

\* The keys of the two manual_mapping tables that have no comma.
MapperPlainKeys ==
    {"United States", "United States of America", "UK", "United Kingdom",
     "Russia", "Russian Federation", "South Korea", "North Korea",
     "Czech Republic", "Czechia", "Iran", "Venezuela", "Bolivia", "Taiwan",
     "Moldova", "Vietnam", "Viet Nam", "Macedonia", "North Macedonia",
     "The Former Yugoslav Republic of Macedonia"}

\* The keys that have one, as the pieces of their text.
MapperCommaKeys ==
    {<<"Korea", ",", " ", "Republic of">>,
     <<"Korea", ",", " ", "Democratic People's Republic of">>,
     <<"Iran", ",", " ", "Islamic Republic of">>,
     <<"Venezuela", ",", " ", "Bolivarian Republic of">>,
     <<"Bolivia", ",", " ", "Plurinational State of">>,
     <<"Taiwan", ",", " ", "Province of China">>,
     <<"Moldova", ",", " ", "Republic of">>}

\* alpha_3 codes of pycountry's records.
IsoCodes ==
    {"FRA", "IND", "DEU", "CAN", "CHN", "GBR", "USA", "RUS", "KOR", "PRK",
     "CZE", "IRN", "VEN", "BOL", "TWN", "MDA", "VNM", "MKD"}

\* The values production_countries.apply hands to a code mapper: a key of
\* a table, a name or code pycountry knows, a name nobody knows, the empty
\* string of an empty token, a NaN.
MapperInputs ==
    {S(<<n>>) : n \in MapperPlainKeys \cup IsoCodes
                      \cup {"France", "france", "fra", "FR", "India", "usa",
                            "united kingdom", "Atlantis", "atlantis", "XYZ"}}
      \cup {S(p) : p \in MapperCommaKeys}
      \cup {S(<<>>), S(<<"France", ",", " ", "India">>), Na}

MapperInit ==
    /\ csv \in {<<Row(S(<<"T1">>), S(<<"Drama">>), c, S(<<"Lionsgate">>),
                     S(<<"1985-07-03">>), Whole(1), Whole(2))>> : c \in MapperInputs}
    /\ df = csv
    /\ InitGlobals
    /\ out = NoOut

\* What each code mapper has returned so far for the name.
MapperReturned(fn) == IF out.fn = "none" THEN {} ELSE out.returned[fn]

\* dash_dashboard.py get_iso_alpha3_enhanced(country_name)
CallGetIsoAlpha3EnhancedDash ==
    /\ served < MaxMapperCalls
    /\ LET c == df[1].production_countries
           r == get_iso_alpha3_enhanced_dash(c)
       IN  out' = [fn |-> "dash", country_name |-> c,
                   lookups |-> lookups_dash(c),
                   manual |-> IF IsStr(c) THEN manual_mapping_dash(NameOf(c)) ELSE "",
                   result |-> r,
                   returned |-> [f \in {"dash", "country"} |->
                                    IF f = "dash" THEN MapperReturned(f) \cup {r}
                                    ELSE MapperReturned(f)]]
    /\ served' = served + 1
    /\ UNCHANGED <<csv, df, plot_themes, current_theme, choropleth_data>>

\* tabs/country.py get_iso_alpha3_enhanced(country_name)
CallGetIsoAlpha3Enhanced ==
    /\ served < MaxMapperCalls
    /\ LET c == df[1].production_countries
           r == get_iso_alpha3_enhanced(c)
       IN  out' = [fn |-> "country", country_name |-> c,
                   lookups |-> lookups_country(c),
                   manual |-> IF IsStr(c) THEN manual_mapping_country(NameOf(c)) ELSE "",
                   result |-> r,
                   returned |-> [f \in {"dash", "country"} |->
                                    IF f = "country" THEN MapperReturned(f) \cup {r}
                                    ELSE MapperReturned(f)]]
    /\ served' = served + 1
    /\ UNCHANGED <<csv, df, plot_themes, current_theme, choropleth_data>>

MapperNext ==
    \/ CallGetIsoAlpha3EnhancedDash
    \/ CallGetIsoAlpha3Enhanced

SpecMapper == MapperInit /\ [][MapperNext]_vars

\* pycountry's answer for the name of a call: a code, or "" for a value it
\* raises on.
GeneralLookup(c) == IF IsStr(c) THEN pycountry_lookup(NameOf(c)) ELSE ""

\* C11: a code mapper looks the name up in its manual table first and asks
\* the general ISO-3166 lookup only when the table has no such key; a
\* manual hit is the result, else the general hit is, and when both miss
\* the result is None, never an exception.
C11_ManualFirstThenGeneralElseNone ==
    out.fn # "none" =>
        /\ out.lookups[1] = "manual_mapping"
        /\ (out.manual # "") => (out.lookups = <<"manual_mapping">>
                                   /\ out.result = S(<<out.manual>>))
        /\ (out.manual = "") =>
              /\ out.lookups = <<"manual_mapping", "pycountry">>
              /\ GeneralLookup(out.country_name) # ""
                    => out.result = S(<<GeneralLookup(out.country_name)>>)
              /\ GeneralLookup(out.country_name) = "" => out.result = Na

\* tabs/country.py's mapper was called with a name neither table knows.
C11_Witness ==
    /\ out.fn = "country"
    /\ out.country_name = S(<<"Atlantis">>)
    /\ out.lookups = <<"manual_mapping", "pycountry">>
    /\ out.result = Na


\* The override entries every manual table is to hold: name, code.
ListedOverrides ==
    {<<"United States", "USA">>, <<"United States of America", "USA">>,
     <<"United Kingdom", "GBR">>, <<"UK", "GBR">>,
     <<"Russia", "RUS">>, <<"Russian Federation", "RUS">>,
     <<"South Korea", "KOR">>, <<"North Korea", "PRK">>,
     <<"Czech Republic", "CZE">>, <<"Czechia", "CZE">>,
     <<"Iran", "IRN">>, <<"Venezuela", "VEN">>, <<"Bolivia", "BOL">>,
     <<"Taiwan", "TWN">>, <<"Moldova", "MDA">>,
     <<"Vietnam", "VNM">>, <<"Viet Nam", "VNM">>,
     <<"Macedonia", "MKD">>, <<"North Macedonia", "MKD">>}

\* C12: the manual table of every code mapper holds each listed override:
\* a call with a listed name finds the name in the mapper's manual table,
\* with the listed code.
C12_ManualTableHasListedEntries ==
    out.fn # "none" =>
        \A e \in ListedOverrides :
            out.country_name = S(<<e[1]>>) => out.manual = e[2]


\* The rows of a summary table that share a value of a column with
\* another row.
SharedOn(summary, col) ==
    {x \in summary : \E y \in summary : y # x /\ y[col] = x[col]}

\* C13: in an aggregation's output no two rows share a group key, and in
\* the geography summary no two rows share an ISO code, so that a clicked
\* code names one summary row.
C13_SummaryRowsUniquePerIso ==
    out.fn \in {"create_choropleth_map", "get_choropleth_and_genre"} =>
        /\ SharedOn(out.fig.data, "production_countries") = {}
        /\ SharedOn(out.fig.data, "iso_alpha") = {}


\* ---------------------------------------------------------------------
\* create_genre_treemap on tables of a few records
\* ---------------------------------------------------------------------

MaxTreemapRows == 2

TreemapGenreTexts ==
    {Na, S(<<"Action">>), S(<<"Action", ",", " ", "Drama">>),
     S(<<"Drama", ",", "Action">>), S(<<"Action", ",", " ", "Action">>)}

TreemapRevenues == {Na, Whole(0), Whole(500), Whole(1000)}

TreemapRows ==
    {Row(S(<<"T1">>), g, S(<<"USA">>), S(<<"Lionsgate">>), S(<<"1985-07-03">>),
         Whole(1), r) : g \in TreemapGenreTexts, r \in TreemapRevenues}

TreemapInit ==
    /\ csv \in SeqsUpTo(TreemapRows, MaxTreemapRows)
    /\ df = csv
    /\ InitGlobals
    /\ out = NoOut

TreemapNext == CallGenreTreemap

SpecTreemap == TreemapInit /\ [][TreemapNext]_vars

\* The genre tokens of a record: its genres split at the commas, stripped.
GenreTokens(r) == IF notna(r.genres) THEN split_strip_list(r.genres).v ELSE <<>>

\* How many of the record's tokens are the genre.
Occurrences(r, g) == Cardinality({i \in 1..Len(GenreTokens(r)) : GenreTokens(r)[i] = g})

\* The revenue of a record as a number, a missing one as none.
RevenueOf(r) == IF IsNum(r.revenue) THEN r.revenue.v[1] ELSE 0

\* Sum of revenue over the records whose token list contains the genre.
RECURSIVE RevenueOfRecordsWith(_, _)
RevenueOfRecordsWith(rows, g) ==
    IF rows = <<>> THEN 0
    ELSE (IF Occurrences(Head(rows), g) > 0 THEN RevenueOf(Head(rows)) ELSE 0)
         + RevenueOfRecordsWith(Tail(rows), g)

\* Sum of revenue over the genre's tokens: a record counts once for each
\* time the genre stands in its list.
RECURSIVE RevenueOfTokens(_, _)
RevenueOfTokens(rows, g) ==
    IF rows = <<>> THEN 0
    ELSE Occurrences(Head(rows), g) * RevenueOf(Head(rows))
         + RevenueOfTokens(Tail(rows), g)

\* The genres that stand in a record with revenue above zero.
GenresEarning(rows) ==
    {g \in UNION {Range(GenreTokens(rows[i])) : i \in 1..Len(rows)} :
        \E i \in 1..Len(rows) : Occurrences(rows[i], g) > 0 /\ RevenueOf(rows[i]) > 0}

\* The (genre, revenue) pairs of a treemap.
TreemapPairs(fig) == {fig.data[i] : i \in 1..Len(fig.data)}

\* C14 as stated: the treemap's revenue of a genre is the sum of revenue
\* over the records whose genre token list contains the genre.
C14_RevenuePerContainingRecord ==
    out.fn = "create_genre_treemap" =>
        \A p \in TreemapPairs(out.fig) : p[2] = RevenueOfRecordsWith(csv, p[1])

\* C14, amended: the treemap has one row for each genre that stands in a
\* record with revenue above zero, and the row's revenue is the sum of
\* revenue over the genre's tokens, a record counted once for each time the
\* genre stands in its list; rows are in descending revenue.
C14_RevenuePerToken ==
    out.fn = "create_genre_treemap" =>
        /\ TreemapPairs(out.fig) = {<<g, RevenueOfTokens(csv, g)>> : g \in GenresEarning(csv)}
        /\ Len(out.fig.data) = Cardinality(GenresEarning(csv))
        /\ \A i, j \in 1..Len(out.fig.data) : i < j => out.fig.data[i][2] >= out.fig.data[j][2]

\* The treemap of the one record 'Action, Drama' with revenue 1000.
C14_Witness ==
    /\ out.fn = "create_genre_treemap"
    /\ Len(csv) = 1
    /\ csv[1].genres = S(<<"Action", ",", " ", "Drama">>)
    /\ csv[1].revenue = Whole(1000)
    /\ TreemapPairs(out.fig) = {<<S(<<"Action">>), 1000>>, <<S(<<"Drama">>), 1000>>}


\* ---------------------------------------------------------------------
\* The top-10 charts on one record whose countries field is any short text
\* ---------------------------------------------------------------------

MaxExpandLen == 3

ExpandCountryTexts ==
    {read_csv_cell(p) : p \in SeqsUpTo({"France", "nan", ",", " "}, MaxExpandLen)}

ExpandInit ==
    /\ csv \in {<<Row(S(<<"T1">>), S(<<"Drama">>), c, S(<<"Lionsgate">>),
                     S(<<"1985-07-03">>), Whole(1), Whole(2))>> : c \in ExpandCountryTexts}
    /\ df = csv
    /\ InitGlobals
    /\ out = NoOut

SpecExpand == ExpandInit /\ [][RoiNext]_vars

\* The tokens the call sites split a countries field into, stripped.
CountryTokens(c) ==
    IF isna(c) THEN <<>>
    ELSE [i \in 1..Len(str_split_re(c).v) |-> str_strip(str_split_re(c).v[i])]

\* The valid ones among them: not '', 'nan' or 'none' in any letter case.
ValidCountryTokens(c) ==
    SelectSeq(CountryTokens(c), LAMBDA t : str_lower(t) \notin InvalidTokens)

\* The fields of a record that exploding production_countries leaves alone.
KeptFields == {"title", "budget", "revenue", "release_date", "production_companies",
               "popularity", "vote_average", "vote_count"}

SameElsewhere(x, r) == \A f \in KeptFields : x[f] = r[f]

\* C15: exploding the countries of a record with k valid tokens yields
\* exactly k rows, one per valid token in order, each the source record in
\* every other field.
C15_OneRowPerValidToken ==
    out.fn \in {"create_top10_movies_plot", "get_top10_bar_chart"} =>
        LET valid == ValidCountryTokens(csv[1].production_countries)
        IN  /\ Len(out.exploded) = Len(valid)
            /\ \A i \in 1..Len(out.exploded) :
                  /\ i <= Len(valid) => out.exploded[i].production_countries = valid[i]
                  /\ SameElsewhere(out.exploded[i], csv[1])

\* What the two call sites do: one row per token of the split, valid or
\* not, each the source record in every other field.
OneRowPerToken ==
    out.fn \in {"create_top10_movies_plot", "get_top10_bar_chart"} =>
        LET all == CountryTokens(csv[1].production_countries)
        IN  /\ Len(out.exploded) = Len(all)
            /\ \A i \in 1..Len(out.exploded) :
                  /\ out.exploded[i].production_countries = all[i]
                  /\ SameElsewhere(out.exploded[i], csv[1])


\* ---------------------------------------------------------------------
\* The three decade diagrams on records of any release date
\* ---------------------------------------------------------------------

\* tabs/country.py genre_decade_sankey_by_country, preprocessing: the dated
\* rows from 1980 on with their decade label, one row per country and valid
\* genre, of the country.
genre_decade_rows(rows, country) ==
    LET a == [i \in 1..Len(rows) |-> [rows[i] EXCEPT !.release_date = to_datetime_coerce(@)]]
        b == SelectSeq(a, LAMBDA r : notna(r.release_date))
        c == SelectSeq(b, LAMBDA r : r.release_date.v[1] >= 1980)
        d == [i \in 1..Len(c) |->
                [decade |-> Decade(c[i].release_date.v[1])] @@
                [c[i] EXCEPT !.production_countries = relist(@)]]
        e == explode(d, "production_countries")
        f == [i \in 1..Len(e) |-> [e[i] EXCEPT !.production_countries = str_strip(@)]]
        g == SelectSeq(f, LAMBDA r : r.production_countries = S(country))
        h == explode([i \in 1..Len(g) |-> [g[i] EXCEPT !.genres = relist(@)]], "genres")
        k == [i \in 1..Len(h) |-> [h[i] EXCEPT !.genres = str_strip(@)]]
    IN  SelectSeq(k, LAMBDA r : notna(r.genres) /\ str_lower(r.genres) \notin InvalidTokens)

\* genre_decade_sankey_by_country(df, country): the links
\* <<genre, decade, count>> over the country's five most frequent genres;
\* an empty figure when the country has no row.
genre_decade_sankey_by_country(rows, country) ==
    IF genre_decade_rows(rows, country) = <<>> THEN {Figure("", {})}
    ELSE {LET x == SelectSeq(genre_decade_rows(rows, country),
                             LAMBDA r : \E k \in 1..Len(top) : top[k][1] = r.genres)
          IN  Figure("Genre to Decade Flow",
                     {<<x[i].genres, x[i].decade,
                        Cardinality({j \in 1..Len(x) : /\ x[j].genres = x[i].genres
                                                       /\ x[j].decade = x[i].decade})>> :
                         i \in 1..Len(x)}) :
            top \in value_counts_top(genre_decade_rows(rows, country), "genres", 5)}

MaxDecadeRows == 2

DecadeDates ==
    {Na, S(<<"not a date">>), S(<<"1975-06-01">>), S(<<"1980-01-01">>), S(<<"1985-07-03">>),
     S(<<"1989-12-31">>), S(<<"1990-06-15">>), S(<<"1999-12-31">>), S(<<"2000-01-01">>),
     S(<<"2019-12-31">>), S(<<"2021-01-15">>), S(<<"2023-12-31">>), S(<<"2024-02-02">>)}

DecadeRecords ==
    {Row(S(<<"T1">>), S(<<"Drama">>), S(<<"France">>), S(<<"Lionsgate">>), d,
         Whole(1), Whole(2)) : d \in DecadeDates}

DecadeInit ==
    /\ csv \in SeqsUpTo(DecadeRecords, MaxDecadeRows)
    /\ df = csv
    /\ InitGlobals
    /\ out = NoOut

DecadeFrame == <<csv, df, plot_themes, current_theme, choropleth_data, served>>

\* tabs/company.py sankey(genre_df, selected_company), as update_static_plots calls it
DecadeCallSankey ==
    /\ \E f \in sankey(company_tab_df(df), <<"Lionsgate">>) :
          out' = [fn |-> "sankey", fig |-> f]
    /\ UNCHANGED DecadeFrame

\* tabs/country.py genre_decade_sankey_by_country(genre_df, selected_country),
\* as update_static_plots calls it
DecadeCallGenreDecadeSankeyByCountry ==
    /\ \E f \in genre_decade_sankey_by_country(country_tab_df(df), <<"France">>) :
          out' = [fn |-> "genre_decade_sankey_by_country", fig |-> f]
    /\ UNCHANGED DecadeFrame

\* dash_dashboard.py create_company_sankey_chart(df, selected_company), as
\* update_company_sankey_chart calls it for a clicked company
DecadeCallCompanySankeyChart ==
    /\ out' = [fn |-> "create_company_sankey_chart",
               fig |-> create_company_sankey_chart(df, "Lionsgate", plot_themes["company_sankey"])]
    /\ UNCHANGED DecadeFrame

DecadeNext ==
    \/ DecadeCallSankey
    \/ DecadeCallGenreDecadeSankeyByCountry
    \/ DecadeCallCompanySankeyChart

SpecDecade == DecadeInit /\ [][DecadeNext]_vars

\* The release years of the loaded records that have a date.
YearsLoaded ==
    {ParseYear(csv[i].release_date.v[1]) :
        i \in {j \in 1..Len(csv) : Parseable(csv[j].release_date)}}

\* floor(year / 10) * 10
FloorDecade(y) == y - (y % 10)

\* The label '{decade}s'.
PlainLabel(d) == [t |-> "decade", v |-> <<d>>]

\* The label '{decade}s ({decade}–{decade+9})'.
RangeLabel(d) == [t |-> "decade_range", v |-> <<d, d + 9>>]

\* The functions that draw a decade diagram.
DecadeDiagrams == {"sankey", "genre_decade_sankey_by_country", "create_company_sankey_chart"}

\* C16 as stated: wherever a decade key is produced it is labeled exactly
\* '{decade}s' with decade = floor(year / 10) * 10 of a record's year.
C16_DecadeLabelPlain ==
    out.fn \in DecadeDiagrams =>
        \A link \in out.fig.data :
            \E y \in YearsLoaded : link[2] = PlainLabel(FloorDecade(y))

\* C16, amended: the decade of a year is floor(year / 10) * 10, a multiple
\* of 10 with decade <= year <= decade + 9; the two tab diagrams label it
\* '{decade}s', the dashboard's company diagram labels it
\* '{decade}s ({decade}–{decade+9})'.
C16_DecadeLabel ==
    out.fn \in DecadeDiagrams =>
        \A link \in out.fig.data :
            \E y \in YearsLoaded :
                /\ FloorDecade(y) % 10 = 0
                /\ FloorDecade(y) <= y /\ y <= FloorDecade(y) + 9
                /\ link[2] = IF out.fn = "create_company_sankey_chart"
                             THEN RangeLabel(FloorDecade(y))
                             ELSE PlainLabel(FloorDecade(y))

\* A diagram of a movie of 1989 and one of 1990: two decades.
C16_Witness ==
    /\ out.fn \in {"sankey", "genre_decade_sankey_by_country"}
    /\ YearsLoaded = {1989, 1990}
    /\ {link[2] : link \in out.fig.data} = {PlainLabel(1980), PlainLabel(1990)}


\* The canonical studio names an alias table is to have.
ListedCanonicalNames ==
    {"Universal Pictures", "Paramount Pictures", "Warner Bros. Pictures",
     "Walt Disney Studios", "Sony Pictures", "Lionsgate", "20th Century Studios",
     "DreamWorks Studios", "Amazon MGM Studios", "Marvel Studios", "Pixar Animation"}

\* An alias table has exactly the listed canonical names, each once, each
\* with 2 to 4 variants.
AliasTableAsListed(table) ==
    /\ Len(table) = Cardinality(ListedCanonicalNames)
    /\ {table[i][1] : i \in 1..Len(table)} = ListedCanonicalNames
    /\ \A i \in 1..Len(table) :
          /\ Len(table[i][2]) \in 2..4
          /\ Cardinality(Range(table[i][2])) = Len(table[i][2])

\* C17: every declaration of the company alias table, the one
\* company_heatmap resolves with and the one create_company_sankey_chart
\* resolves with, has exactly the 11 listed canonical names, each mapped
\* from 2 to 4 variants.
C17_AliasTablesAsListed ==
    /\ out.fn = "company_heatmap" => AliasTableAsListed(target_studios)
    /\ out.fn = "create_company_sankey_chart" => AliasTableAsListed(company_aliases)

\* The dashboard's declaration alone is as listed.
DashAliasTableAsListed ==
    out.fn = "create_company_sankey_chart" => AliasTableAsListed(company_aliases)


\* ---------------------------------------------------------------------
\* Company matching on records whose company is written in several cases
\* ---------------------------------------------------------------------

MaxCaseRows == 2

CaseCompanies == {"Lionsgate", "LIONSGATE", "lionsgate", "Lionsgate Films", "Pixar"}

CaseTitles == <<"T1", "T2", "T3">>

\* Tables whose i-th record has the i-th title.
CaseTables ==
    {[i \in 1..Len(cs) |->
        Row(S(<<CaseTitles[i]>>), S(<<"Drama">>), S(<<"France">>), S(<<cs[i]>>),
            S(<<"1985-07-03">>), Whole(1), Whole(2))] :
        cs \in SeqsUpTo(CaseCompanies, MaxCaseRows)}

CaseInit ==
    /\ csv \in CaseTables
    /\ df = csv
    /\ InitGlobals
    /\ out = NoOut

CaseFrame == <<csv, df, plot_themes, current_theme, choropleth_data, served>>

Titles(rows) == {rows[i].title.v[1] : i \in 1..Len(rows)}

\* tabs/genre.py company_heatmap(df, 'Drama'): the rows it keeps.
CaseCallCompanyHeatmap ==
    /\ out' = [fn |-> "company_heatmap", company_name |-> "",
               matched |-> Titles(company_heatmap_kept(genre_df(df, <<"Drama">>), <<"Drama">>))]
    /\ UNCHANGED CaseFrame

\* dash_dashboard.py create_company_sankey_chart(df, 'Lionsgate'): df_filtered.
CaseCallCompanySankeyChart ==
    /\ out' = [fn |-> "create_company_sankey_chart", company_name |-> "Lionsgate",
               matched |-> Titles(company_sankey_filtered(df, "Lionsgate"))]
    /\ UNCHANGED CaseFrame

\* tabs/company.py sankey(df, 'Lionsgate'): the rows of the company.
CaseCallSankey ==
    /\ out' = [fn |-> "sankey", company_name |-> "Lionsgate",
               matched |-> Titles(sankey_rows(company_tab_df(df), <<"Lionsgate">>))]
    /\ UNCHANGED CaseFrame

\* tabs/company.py topwrtroi(df, 'Lionsgate'): the rows of the company.
CaseCallTopwrtroi ==
    /\ \E f \in topwrtroi(company_tab_df(df), <<"Lionsgate">>) :
          out' = [fn |-> "topwrtroi", company_name |-> "Lionsgate",
                  matched |-> IF f.kind = "raise" THEN {}
                              ELSE {f.data[i][1].v[1] : i \in 1..Len(f.data)}]
    /\ UNCHANGED CaseFrame

\* tabs/company.py genredist(df, 'Lionsgate'): the rows of the company.
CaseCallGenredist ==
    /\ out' = [fn |-> "genredist", company_name |-> "Lionsgate",
               matched |-> Titles(company_rows(company_tab_df(df), <<"Lionsgate">>))]
    /\ UNCHANGED CaseFrame

CaseNext ==
    \/ CaseCallCompanyHeatmap
    \/ CaseCallCompanySankeyChart
    \/ CaseCallSankey
    \/ CaseCallTopwrtroi
    \/ CaseCallGenredist

SpecCase == CaseInit /\ [][CaseNext]_vars

\* The titles of the loaded records whose company satisfies a test.
TitlesWhere(Test(_)) ==
    {csv[i].title.v[1] : i \in {j \in 1..Len(csv) : Test(csv[j].production_companies.v[1])}}

\* The variants listed for Lionsgate in the dashboard's table.
LionsgateVariants == {"Lionsgate", "Lions Gate Entertainment", "Lionsgate Films"}

\* The two resolvers match a company as written.
ResolversMatchExactly ==
    /\ out.fn = "company_heatmap" =>
          out.matched = TitlesWhere(LAMBDA w : w \in ListedVariants(target_studios))
    /\ out.fn = "create_company_sankey_chart" =>
          out.matched = TitlesWhere(LAMBDA w : w \in LionsgateVariants)

\* C18 as stated: company names are matched case-sensitively and exactly,
\* by the two resolvers and by sankey, topwrtroi and genredist of the
\* company tab.
C18_MatchCaseSensitive ==
    /\ ResolversMatchExactly
    /\ out.fn \in {"sankey", "topwrtroi", "genredist"} =>
          out.matched = TitlesWhere(LAMBDA w : w = out.company_name)

\* C18, amended: the two resolvers match a company as written; sankey,
\* topwrtroi and genredist of the company tab match it whatever its letter
\* case, both names lower-cased.
C18_MatchPerSite ==
    /\ ResolversMatchExactly
    /\ out.fn \in {"sankey", "topwrtroi", "genredist"} =>
          out.matched = TitlesWhere(LAMBDA w : LowerWord(w) = LowerWord(out.company_name))

\* genredist selected a record whose company is written LIONSGATE, and one
\* written Lionsgate.
C18_Witness ==
    /\ out.fn = "genredist"
    /\ Len(csv) = 2
    /\ csv[1].production_companies = S(<<"LIONSGATE">>)
    /\ csv[2].production_companies = S(<<"Lionsgate">>)
    /\ out.matched = {"T1", "T2"}


\* ---------------------------------------------------------------------
\* The dashboard started with or without its data file
\* ---------------------------------------------------------------------

MaxLoadRows == 2

MaxLoadServed == 2

\* The columns of the data file.
FileColumns ==
    {"title", "genres", "production_countries", "production_companies", "release_date",
     "budget", "revenue", "popularity", "vote_average", "vote_count"}

\* What is on disk: no file, or a file of some records (none, too).
Files ==
    {[exists |-> FALSE, rows |-> <<>>]}
      \cup {[exists |-> TRUE, rows |-> rs] : rs \in SeqsUpTo(MainRows, MaxLoadRows)}

\* Load data: pd.read_csv, or pd.DataFrame(), a frame with no column and no
\* row, when the file is not found.
load(file) ==
    IF file.exists THEN [columns |-> FileColumns, rows |-> file.rows]
    ELSE [columns |-> {}, rows |-> <<>>]

\* create_correlation_heatmap(df) with its except clause: df['vote_average']
\* of a frame without that column raises KeyError inside the try, and the
\* function returns {}.
create_correlation_heatmap_frame(frame, theme) ==
    IF {"vote_average", "vote_count", "revenue", "budget", "popularity"} \subseteq frame.columns
    THEN create_correlation_heatmap(frame.rows, theme)
    ELSE EmptyDict

\* create_top10_movies_plot(df, country, feature) with its except clause:
\* df_processed['title'] of a frame without that column raises KeyError
\* inside the try, and the function returns px.bar(title="Error creating
\* plot").
create_top10_movies_plot_frame(frame, country, feature, theme) ==
    IF {"title", "production_countries", "revenue", "budget"} \subseteq frame.columns
    THEN create_top10_movies_plot(frame.rows, country, feature, theme)
    ELSE {Figure("Error creating plot", <<>>)}

LoadInit ==
    /\ csv \in Files
    /\ df = load(csv)
    /\ InitGlobals
    /\ out = NoOut

\* toggle_correlation_heatmap_theme(n_clicks)
LoadToggleCorrelationHeatmapTheme ==
    /\ served < MaxLoadServed
    /\ \E n \in Clicks :
        /\ plot_themes' = ToggledThemes(plot_themes, "correlation_heatmap", n)
        /\ out' = [fn |-> "toggle_correlation_heatmap_theme",
                   figure |-> create_correlation_heatmap_frame(
                                  df, plot_themes'["correlation_heatmap"])]
    /\ served' = served + 1
    /\ UNCHANGED <<csv, df, current_theme, choropleth_data>>

\* update_top10_movies_graph(country, ...)
LoadUpdateTop10MoviesGraph ==
    /\ served < MaxLoadServed
    /\ \E c \in DropdownCountries, trigger \in Top10Triggers :
        /\ plot_themes' = IF trigger = "top10_movies-theme-toggle"
                          THEN [plot_themes EXCEPT !["top10_movies"] = Flip(@)]
                          ELSE plot_themes
        /\ \E f \in create_top10_movies_plot_frame(df, c, Top10Feature(trigger),
                                                   plot_themes'["top10_movies"]) :
             out' = [fn |-> "update_top10_movies_graph", figure |-> f]
    /\ served' = served + 1
    /\ UNCHANGED <<csv, df, current_theme, choropleth_data>>

LoadNext ==
    \/ LoadToggleCorrelationHeatmapTheme
    \/ LoadUpdateTop10MoviesGraph

SpecLoad == LoadInit /\ [][LoadNext]_vars

\* C19: when the table has none of the required columns (the frame without
\* schema of a failed load), a chart function surfaces a hard failure: what
\* the callback gets is an exception, not a figure or an empty chart.
C19_NoSchemaIsHardFailure ==
    (out.fn # "none" /\ df.columns = {}) => out.figure.kind = "raise"

\* What the chart functions do without schema: an empty dict, or a figure
\* that carries an error title.
NoSchemaIsSwallowed ==
    (out.fn # "none" /\ df.columns = {}) =>
        \/ out.figure = EmptyDict
        \/ out.figure = Figure("Error creating plot", <<>>)


ChartTitles(fig) == {fig.data[k][1] : k \in 1..Len(fig.data)}

\* C21: a record whose roi is null is left out of roi-keyed computations
\* only: in a top-10 by revenue, budget or popularity of its country, of
\* at most ten candidates, it is shown whenever it has the feature.
C21_NullRoiStillRanked ==
    (/\ out.fn \in {"get_top10_bar_chart", "create_top10_movies_plot"}
     /\ out.feature \in {"revenue", "budget", "popularity"}) =>
        \A i \in 1..Len(csv) :
            (/\ csv[i].production_countries = S(out.country)
             /\ notna(csv[i][out.feature])) =>
                /\ out.fig.title = "Top 10 Movies in"
                /\ csv[i].title \in ChartTitles(out.fig)

\* What the two charts do: a record without roi is in no top-10, whatever
\* the feature.
NullRoiNeverRanked ==
    out.fn \in {"get_top10_bar_chart", "create_top10_movies_plot"} =>
        \A i \in 1..Len(csv) :
            (IsNum(csv[i].budget) /\ IsNum(csv[i].revenue) /\ csv[i].budget.v[1] # 0)
                \/ out.fig.title # "Top 10 Movies in"
                \/ csv[i].title \notin ChartTitles(out.fig)


\* ---------------------------------------------------------------------
\* Alias resolution of a movie credited under a canonical studio name
\* ---------------------------------------------------------------------

\* The canonical names of an alias table.
CanonicalNames(table) == {table[i][1] : i \in 1..Len(table)}

\* The credits tried: every canonical name of either table, a variant, and
\* a company of no table.
CanonCredits ==
    CanonicalNames(target_studios) \cup CanonicalNames(company_aliases)
        \cup {"Pixar", "Studio XYZ"}

CanonInit ==
    /\ csv \in {<<Row(S(<<"T1">>), S(<<"Drama">>), S(<<"France">>), S(<<c>>),
                     S(<<"1985-07-03">>), Whole(1), Whole(2))>> : c \in CanonCredits}
    /\ df = csv
    /\ InitGlobals
    /\ out = NoOut

CanonFrame == <<csv, df, plot_themes, current_theme, choropleth_data, served>>

\* tabs/genre.py company_heatmap(df, 'Drama')
CanonCallCompanyHeatmap ==
    /\ out' = [fn |-> "company_heatmap", selected_company |-> "",
               mapped |-> company_heatmap_mapped(genre_df(df, <<"Drama">>), <<"Drama">>),
               fig |-> company_heatmap(genre_df(df, <<"Drama">>), <<"Drama">>)]
    /\ UNCHANGED CanonFrame

\* dash_dashboard.py create_company_sankey_chart(df, selected_company) for a
\* clicked studio of the donut.
CanonCallCompanySankeyChart ==
    /\ \E c \in CanonicalNames(company_aliases) :
         out' = [fn |-> "create_company_sankey_chart", selected_company |-> c,
                 filtered |-> company_sankey_filtered(df, c),
                 fig |-> create_company_sankey_chart(df, c, plot_themes["company_sankey"])]
    /\ UNCHANGED CanonFrame

CanonNext == CanonCallCompanyHeatmap \/ CanonCallCompanySankeyChart

SpecCanonical == CanonInit /\ [][CanonNext]_vars

\* The company the one loaded movie is credited to.
Credit == csv[1].production_companies.v[1]

\* A movie credited under a canonical name is attributed to that studio.
AttributedToItself ==
    /\ (out.fn = "company_heatmap" /\ Credit \in CanonicalNames(target_studios)) =>
          /\ \A i \in 1..Len(out.mapped) : out.mapped[i].studio_mapped = S(<<Credit>>)
          /\ \E t \in out.fig.data : t[1] = S(<<Credit>>) /\ t[3] = 1
    /\ (out.fn = "create_company_sankey_chart" /\ out.selected_company = Credit) =>
          /\ out.filtered # <<>>
          /\ out.fig.title = "Decade-wise Genre Targeting"

\* C22: alias resolution is idempotent on canonical names: a movie credited
\* under the canonical name of a studio of the table is counted in that
\* studio's row by company_heatmap and matched by
\* create_company_sankey_chart when that studio is selected.
C22_CanonicalResolvesToItself == out.fn # "none" => AttributedToItself

\* The same for every canonical name but Pixar Animation.
CanonicalButPixarResolvesToItself ==
    (out.fn # "none" /\ Credit # "Pixar Animation") => AttributedToItself


-----------------------------------------------------------------------------
(* SpecClicks: clicks on the theme buttons of the page.  A click raises    *)
(* the button's n_clicks and makes every callback that has the button as   *)
(* an Input pending; the pending callbacks are then served one by one, in  *)
(* any order.  out holds the buttons' n_clicks, the button clicked last,   *)
(* the callbacks still pending and the last callback's return value.       *)

MaxThemeClicks == 2

\* The plot buttons carry their plot's key here ('<plot>-theme-toggle' in
\* the layout); "theme-toggle" is the page's button.
ThemeButtons == DOMAIN InitPlotThemes \cup {"theme-toggle"}

PendingCall(fn, button) == [fn |-> fn, button |-> button]

\* The callbacks declared with Input(<button>, 'n_clicks').
Listeners(button) ==
    CASE button = "correlation_heatmap" ->
            {PendingCall("toggle_correlation_heatmap_theme", button)}
      [] button = "budget_revenue_scatter" ->
            {PendingCall("toggle_budget_revenue_scatter_theme", button)}
      [] button = "genre_sunburst" ->
            {PendingCall("toggle_genre_sunburst_theme", button)}
      [] button = "budget_revenue_bar" ->
            {PendingCall("toggle_budget_revenue_bar_theme", button)}
      [] button = "choropleth_map" ->
            {PendingCall("toggle_choropleth_map_theme", button)}
      [] button = "country_genre_pie" ->
            {PendingCall("toggle_country_genre_pie_theme", button)}
      [] button = "top10_movies" ->
            {PendingCall("update_top10_movies_graph", button),
             PendingCall("toggle_top10_movies_theme_button", button)}
      [] button = "company_genre" ->
            {PendingCall("update_company_genre_chart", button)}
      [] button = "company_sankey" ->
            {PendingCall("update_company_sankey_chart", button),
             PendingCall("toggle_company_sankey_theme", button)}
      [] button = "theme-toggle" ->
            {PendingCall("toggle_theme", button), PendingCall("update_controls", button),
             PendingCall("update_content", button)}
      [] OTHER -> {}

\* update_content replaces the page's content; the callbacks of the new
\* tab's graphs that do not prevent their initial call are called with no
\* trigger ("" here).
InitialCalls(tab) ==
    CASE selected_tab_name(tab) = "country" -> {PendingCall("update_top10_movies_graph", "")}
      [] selected_tab_name(tab) = "company" ->
            {PendingCall("update_company_genre_chart", ""),
             PendingCall("update_company_sankey_chart", "")}
      [] OTHER -> {}

ClicksInit ==
    /\ csv \in {<<r>> : r \in MainRows}
    /\ df = csv
    /\ InitGlobals
    /\ out = [fn |-> "none", clicked |-> "", pending |-> {},
              n_clicks |-> [b \in ThemeButtons |-> 0], result |-> <<>>]

\* One click on a theme button, made when the page is idle.
ClickThemeButton ==
    /\ served < MaxThemeClicks
    /\ out.pending = {}
    /\ \E b \in ThemeButtons :
        out' = [fn |-> "click", clicked |-> b, pending |-> Listeners(b),
                n_clicks |-> [out.n_clicks EXCEPT ![b] = @ + 1], result |-> <<>>]
    /\ served' = served + 1
    /\ UNCHANGED <<csv, df, plot_themes, current_theme, choropleth_data>>

\* out after pending call c returned r and made the calls in more pending.
CallReturned(c, r, more) ==
    [out EXCEPT !.fn = c.fn, !.pending = (@ \ {c}) \cup more, !.result = r]

\* The n_clicks pending call c is given.
NClicks(c) == IF c.button = "" THEN 0 ELSE out.n_clicks[c.button]

ClickToggleCorrelationHeatmapTheme ==
    /\ \E c \in out.pending :
        /\ c.fn = "toggle_correlation_heatmap_theme"
        /\ plot_themes' = ToggledThemes(plot_themes, "correlation_heatmap", NClicks(c))
        /\ \E r \in toggle_correlation_heatmap_theme(NClicks(c), df, plot_themes) :
             out' = CallReturned(c, r, {})
    /\ UNCHANGED <<csv, df, current_theme, choropleth_data, served>>

ClickToggleBudgetRevenueScatterTheme ==
    /\ \E c \in out.pending :
        /\ c.fn = "toggle_budget_revenue_scatter_theme"
        /\ plot_themes' = ToggledThemes(plot_themes, "budget_revenue_scatter", NClicks(c))
        /\ \E r \in toggle_budget_revenue_scatter_theme(NClicks(c), df, plot_themes) :
             out' = CallReturned(c, r, {})
    /\ UNCHANGED <<csv, df, current_theme, choropleth_data, served>>

ClickToggleGenreSunburstTheme ==
    /\ \E c \in out.pending :
        /\ c.fn = "toggle_genre_sunburst_theme"
        /\ plot_themes' = ToggledThemes(plot_themes, "genre_sunburst", NClicks(c))
        /\ \E r \in toggle_genre_sunburst_theme(NClicks(c), df, plot_themes) :
             out' = CallReturned(c, r, {})
    /\ df' = genre_sunburst_assign(df)
    /\ UNCHANGED <<csv, current_theme, choropleth_data, served>>

ClickToggleBudgetRevenueBarTheme ==
    /\ \E c \in out.pending :
        /\ c.fn = "toggle_budget_revenue_bar_theme"
        /\ plot_themes' = ToggledThemes(plot_themes, "budget_revenue_bar", NClicks(c))
        /\ \E r \in toggle_budget_revenue_bar_theme(NClicks(c), df, plot_themes) :
             out' = CallReturned(c, r, {})
    /\ UNCHANGED <<csv, df, current_theme, choropleth_data, served>>

ClickToggleChoroplethMapTheme ==
    /\ \E c \in out.pending :
        /\ c.fn = "toggle_choropleth_map_theme"
        /\ plot_themes' = ToggledThemes(plot_themes, "choropleth_map", NClicks(c))
        /\ \E r \in toggle_choropleth_map_theme(NClicks(c), df, plot_themes) :
             out' = CallReturned(c, r, {})
    /\ choropleth_data' = choropleth_store(df)
    /\ UNCHANGED <<csv, df, current_theme, served>>

ClickToggleCountryGenrePieTheme ==
    /\ \E c \in out.pending :
        /\ c.fn = "toggle_country_genre_pie_theme"
        /\ plot_themes' = ToggledThemes(plot_themes, "country_genre_pie", NClicks(c))
        /\ \E r \in toggle_country_genre_pie_theme(NClicks(c), df, plot_themes) :
             out' = CallReturned(c, r, {})
    /\ UNCHANGED <<csv, df, current_theme, choropleth_data, served>>

\* update_top10_movies_graph: ctx.triggered names the plot's button when
\* the call was made for a click on it.
ClickUpdateTop10MoviesGraph ==
    /\ \E c \in out.pending, country \in DropdownCountries :
        LET trigger == IF c.button = "top10_movies" THEN "top10_movies-theme-toggle"
                       ELSE "top10-country-dropdown"
        IN  /\ c.fn = "update_top10_movies_graph"
            /\ plot_themes' = IF trigger = "top10_movies-theme-toggle"
                              THEN [plot_themes EXCEPT !["top10_movies"] = Flip(@)]
                              ELSE plot_themes
            /\ \E r \in update_top10_movies_graph(country, trigger, df, plot_themes) :
                 out' = CallReturned(c, r, {})
    /\ UNCHANGED <<csv, df, current_theme, choropleth_data, served>>

ClickToggleTop10MoviesThemeButton ==
    /\ \E c \in out.pending :
        /\ c.fn = "toggle_top10_movies_theme_button"
        /\ plot_themes' = ToggledThemes(plot_themes, "top10_movies", NClicks(c))
        /\ \E r \in toggle_top10_movies_theme_button(NClicks(c), plot_themes) :
             out' = CallReturned(c, r, {})
    /\ UNCHANGED <<csv, df, current_theme, choropleth_data, served>>

ClickToggleTheme ==
    /\ \E c \in out.pending :
        /\ c.fn = "toggle_theme"
        /\ current_theme' = (IF NClicks(c) > 0 THEN Flip(current_theme) ELSE current_theme)
        /\ \E r \in toggle_theme(NClicks(c), current_theme) :
             out' = CallReturned(c, r, {})
    /\ UNCHANGED <<csv, df, plot_themes, choropleth_data, served>>

ClickUpdateControls ==
    /\ \E c \in out.pending, tab \in Tabs :
        /\ c.fn = "update_controls"
        /\ \E r \in update_controls(tab) :
             out' = CallReturned(c, r, {})
    /\ UNCHANGED <<csv, df, plot_themes, current_theme, choropleth_data, served>>

ClickUpdateContent ==
    /\ \E c \in out.pending, tab \in Tabs :
        /\ c.fn = "update_content"
        /\ \E r \in update_content(tab, df, plot_themes, current_theme) :
             out' = CallReturned(c, r, InitialCalls(tab))
        /\ df' = IF selected_tab_name(tab) = "genre" THEN genre_sunburst_assign(df) ELSE df
        /\ choropleth_data' = IF selected_tab_name(tab) = "country"
                              THEN choropleth_store(df) ELSE choropleth_data
    /\ UNCHANGED <<csv, plot_themes, current_theme, served>>

ClickUpdateCompanyGenreChart ==
    /\ \E c \in out.pending, click \in DonutClicks :
        /\ c.fn = "update_company_genre_chart"
        /\ \E r \in update_company_genre_chart(click, df, plot_themes) :
             out' = CallReturned(c, r, {})
    /\ UNCHANGED <<csv, df, plot_themes, current_theme, choropleth_data, served>>

ClickUpdateCompanySankeyChart ==
    /\ \E c \in out.pending, click \in DonutClicks :
        /\ c.fn = "update_company_sankey_chart"
        /\ \E r \in update_company_sankey_chart(click, df, plot_themes) :
             out' = CallReturned(c, r, {})
    /\ UNCHANGED <<csv, df, plot_themes, current_theme, choropleth_data, served>>

ClickToggleCompanySankeyTheme ==
    /\ \E c \in out.pending :
        /\ c.fn = "toggle_company_sankey_theme"
        /\ plot_themes' = ToggledThemes(plot_themes, "company_sankey", NClicks(c))
        /\ \E r \in toggle_company_sankey_theme(NClicks(c), plot_themes) :
             out' = CallReturned(c, r, {})
    /\ UNCHANGED <<csv, df, current_theme, choropleth_data, served>>

ClicksNext ==
    \/ ClickThemeButton
    \/ ClickToggleCorrelationHeatmapTheme
    \/ ClickToggleBudgetRevenueScatterTheme
    \/ ClickToggleGenreSunburstTheme
    \/ ClickToggleBudgetRevenueBarTheme
    \/ ClickToggleChoroplethMapTheme
    \/ ClickToggleCountryGenrePieTheme
    \/ ClickUpdateTop10MoviesGraph
    \/ ClickToggleTop10MoviesThemeButton
    \/ ClickToggleTheme
    \/ ClickUpdateControls
    \/ ClickUpdateContent
    \/ ClickUpdateCompanyGenreChart
    \/ ClickUpdateCompanySankeyChart
    \/ ClickToggleCompanySankeyTheme

SpecClicks == ClicksInit /\ [][ClicksNext]_vars

\* The page is idle: every callback of the clicks made so far has returned.
Idle == out.pending = {}

\* The theme of plot p is dark exactly when its button was clicked an even
\* number of times.
ParityKept(p) == plot_themes[p] = "dark" <=> out.n_clicks[p] % 2 = 0

\* C23: whenever the page is idle, every plot's theme is dark exactly when
\* the number of clicks made on the plot's button is even, that is, each
\* click has flipped the plot's theme exactly once.
C23_ClickFlipsThemeOnce ==
    Idle => \A p \in DOMAIN plot_themes : ParityKept(p)

\* The plots whose button has exactly one callback that flips the theme.
FlippedOnce == {"correlation_heatmap", "budget_revenue_scatter", "genre_sunburst",
                "budget_revenue_bar", "choropleth_map", "country_genre_pie",
                "company_sankey"}

\* The same for the plots of FlippedOnce, where it holds.
FlippedOncePlotsKeepParity ==
    Idle => \A p \in FlippedOnce : ParityKept(p)

\* The other plots never leave the dark theme.
OtherPlotsStayDark ==
    Idle => \A p \in DOMAIN plot_themes \ FlippedOnce : plot_themes[p] = "dark"


-----------------------------------------------------------------------------
(* The choropleth summary's movie_count, checked under SpecGeo.            *)

\* The country tokens of a record of the table create_choropleth_map is
\* given (a text, split at the commas) or of the country tab's table
\* (already a list), stripped.
ListedCountries(c) ==
    LET l == IF IsStr(c) THEN str_split_re(c) ELSE c
    IN  IF l.t = "list" THEN [j \in 1..Len(l.v) |-> str_strip(l.v[j])] ELSE <<>>

\* The number of records of rows whose production_countries list contains k.
RecordsListing(rows, k) ==
    Cardinality({i \in 1..Len(rows) :
        \E j \in 1..Len(ListedCountries(rows[i].production_countries)) :
            ListedCountries(rows[i].production_countries)[j] = k})

\* The table the last call summarised.
Summarised ==
    IF out.fn = "create_choropleth_map" THEN df ELSE country_tab_df(df)

\* The record names every country once.
DistinctCountries(r) ==
    \A i, j \in 1..Len(ListedCountries(r.production_countries)) :
        ListedCountries(r.production_countries)[i] = ListedCountries(r.production_countries)[j]
            => i = j

\* The number of genre tokens of a record, 1 when it has no genres.
GenreTokenCount(r) == IF IsStr(r.genres) THEN Len(str_split_re(r.genres).v) ELSE 1

\* C24: when no record names a country twice, every row of the choropleth
\* summary has for movie_count the number of records whose
\* production_countries list contains the row's country.
C24_MovieCountIsRecordCount ==
    (/\ out.fn \in {"create_choropleth_map", "get_choropleth_and_genre"}
     /\ \A i \in 1..Len(df) : DistinctCountries(df[i])) =>
        \A x \in out.fig.data :
            x.movie_count = RecordsListing(Summarised, x.production_countries)

\* The same for tabs/country.py, whose genres are NaN when it explodes.
CountryTabCountsRecords ==
    (/\ out.fn = "get_choropleth_and_genre"
     /\ \A i \in 1..Len(df) : DistinctCountries(df[i])) =>
        \A x \in out.fig.data :
            x.movie_count = RecordsListing(Summarised, x.production_countries)

\* create_choropleth_map counts the record once for each of its genre
\* tokens.
MovieCountIsGenreTokenCount ==
    (/\ out.fn = "create_choropleth_map"
     /\ Len(df) = 1
     /\ DistinctCountries(df[1])) =>
        \A x \in out.fig.data : x.movie_count = GenreTokenCount(df[1])


-----------------------------------------------------------------------------
(* tabs/genre.py: country_heatmap, and SpecHeatmap, which draws the two    *)
(* heatmaps of the Drama genre over small tables whose movies are of 1985  *)
(* or 2021 and name one country or all ten of the heatmap's countries.     *)

top_countries ==
    <<"South Korea", "Australia", "Canada", "China", "India", "Japan", "Germany", "France",
      "United Kingdom", "United States of America">>

\* company_heatmap's final_studios: the keys of target_studios.
final_studios == [i \in 1..Len(target_studios) |-> target_studios[i][1]]

\* country_heatmap up to the validity filters: rows of the genre in
\* 1980..2024, one per valid production country token, with the period.
country_heatmap_tokens(rows, genre) ==
    LET a == SelectSeq(rows, LAMBDA r : between(r.year, 1980, 2024))
        b == explode(a, "genres")
        c == [i \in 1..Len(b) |-> [b[i] EXCEPT !.genres = str_strip(@)]]
        d == SelectSeq(c, LAMBDA r : r.genres = S(genre))
        e == [i \in 1..Len(d) |-> [d[i] EXCEPT !.production_countries = relist(@)]]
        f == explode(e, "production_countries")
        g == [i \in 1..Len(f) |-> [f[i] EXCEPT !.production_countries = str_strip(@)]]
        h == SelectSeq(g, LAMBDA r : /\ notna(r.production_countries)
                                     /\ str_lower(r.production_countries) # S(<<"nan">>)
                                     /\ r.production_countries # EmptyStr)
    IN  [i \in 1..Len(h) |-> [period |-> cut_period(h[i].year)] @@ h[i]]

\* groupby([col, 'period']).size(): the non-zero cells <<key, period, count>>
\* of the rows that have a period.
PeriodCells(k, col) ==
    {<<k[i][col], k[i].period,
       Cardinality({j \in 1..Len(k) : k[j][col] = k[i][col] /\ k[j].period = k[i].period})>> :
        i \in {j \in 1..Len(k) : notna(k[j].period)}}

\* The index of the grouped table.  period is categorical: with
\* observed=False (the default before pandas 3) the index holds every
\* country of the rows, with observed=True only the countries that have a
\* row with a period.
GroupedIndexes(k) ==
    {Keys(k, "production_countries"),
     Keys(SelectSeq(k, LAMBDA r : notna(r.period)), "production_countries")}

\* country_heatmap(df, genre): count_data.loc[top_countries] raises
\* KeyError when a listed country is not in the index; otherwise the
\* heatmap has the rows of top_countries and the cells of those countries.
country_heatmap(rows, genre) ==
    IF SelectSeq(rows, LAMBDA r : between(r.year, 1980, 2024) /\ str_strip(r.genres) = S(genre)) = <<>>
    THEN {Figure("", [index |-> <<>>, cells |-> {}])}
    ELSE LET k == country_heatmap_tokens(rows, genre)
         IN  {IF \A i \in 1..Len(top_countries) : S(<<top_countries[i]>>) \in index
              THEN Figure("Top Countries Producing",
                          [index |-> top_countries,
                           cells |-> {c \in PeriodCells(k, "production_countries") :
                                         \E i \in 1..Len(top_countries) :
                                            c[1] = S(<<top_countries[i]>>)}])
              ELSE Raise("KeyError") : index \in GroupedIndexes(k)}

\* company_heatmap(df, genre) with the rows of the heatmap:
\* count_data.reindex(final_studios).fillna(0).
company_heatmap_indexed(rows, genre) ==
    LET f == company_heatmap(rows, genre)
    IN  Figure(f.title, [index |-> IF f.title = "" THEN <<>> ELSE final_studios,
                         cells |-> f.data])

MaxHeatmapRows == 2

TenCountries ==
    <<"South Korea", ",", " ", "Australia", ",", " ", "Canada", ",", " ", "China", ",", " ",
      "India", ",", " ", "Japan", ",", " ", "Germany", ",", " ", "France", ",", " ",
      "United Kingdom", ",", " ", "United States of America">>

HeatmapRecords ==
    {Row(S(<<"T1">>), S(<<"Drama">>), c, p, d, Whole(1), Whole(2)) :
        c \in {S(<<"France">>), S(TenCountries)},
        p \in {S(<<"Lionsgate">>), S(<<"Paramount">>)},
        d \in {S(<<"1985-07-03">>), S(<<"2021-01-15">>)}}

HeatmapInit ==
    /\ csv \in SeqsUpTo(HeatmapRecords, MaxHeatmapRows) \ {<<>>}
    /\ df = csv
    /\ InitGlobals
    /\ out = NoOut

\* update_genre_plots('Drama'): fig2.
HeatmapCallCountryHeatmap ==
    /\ \E f \in country_heatmap(genre_df(df, <<"Drama">>), <<"Drama">>) :
         out' = [fn |-> "country_heatmap",
                 filtered |-> country_heatmap_tokens(genre_df(df, <<"Drama">>), <<"Drama">>),
                 key |-> "production_countries",
                 fig |-> f]
    /\ UNCHANGED <<csv, df, plot_themes, current_theme, choropleth_data, served>>

\* update_genre_plots('Drama'): fig3.
HeatmapCallCompanyHeatmap ==
    /\ out' = [fn |-> "company_heatmap",
               filtered |-> company_heatmap_kept(genre_df(df, <<"Drama">>), <<"Drama">>),
               key |-> "studio_mapped",
               fig |-> company_heatmap_indexed(genre_df(df, <<"Drama">>), <<"Drama">>)]
    /\ UNCHANGED <<csv, df, plot_themes, current_theme, choropleth_data, served>>

HeatmapNext ==
    \/ HeatmapCallCountryHeatmap
    \/ HeatmapCallCompanyHeatmap

SpecHeatmap == HeatmapInit /\ [][HeatmapNext]_vars

\* The count the heatmap shows for key k in the period that starts at lo.
CellCount(cells, k, lo) ==
    IF \E c \in cells : c[1] = k /\ c[2] = Period(lo)
    THEN (CHOOSE c \in cells : c[1] = k /\ c[2] = Period(lo))[3]
    ELSE 0

\* The counts of key k over the period columns from lo on.
RECURSIVE RowTotal(_, _, _)
RowTotal(cells, k, lo) ==
    IF lo > 2015 THEN 0 ELSE CellCount(cells, k, lo) + RowTotal(cells, k, lo + 5)

\* The filtered rows of key k up to year hi.
FilteredRows(k, hi) ==
    Cardinality({i \in 1..Len(out.filtered) :
        out.filtered[i][out.key] = k /\ between(out.filtered[i].year, 1980, hi)})

HeatmapDrawn ==
    out.fn \in {"country_heatmap", "company_heatmap"} /\ out.fig.kind = "figure"

\* C25: in a heatmap that was drawn, the counts of every country or studio
\* of the heatmap over the period columns sum to the number of its rows
\* that passed the year filter between(1980, 2024).
C25_PeriodCountsSumToFilteredRows ==
    HeatmapDrawn =>
        \A i \in 1..Len(out.fig.data.index) :
            RowTotal(out.fig.data.cells, S(<<out.fig.data.index[i]>>), 1980)
                = FilteredRows(S(<<out.fig.data.index[i]>>), 2024)

\* The counts sum to the number of the rows of 1980..2019: the bins end at
\* 2020, and a row of 2020..2024 is in no period column.
PeriodCountsSumToRowsBefore2020 ==
    HeatmapDrawn =>
        \A i \in 1..Len(out.fig.data.index) :
            RowTotal(out.fig.data.cells, S(<<out.fig.data.index[i]>>), 1980)
                = FilteredRows(S(<<out.fig.data.index[i]>>), 2019)

\* The genre of the call has a matching row.
GenreMatched ==
    \E i \in 1..Len(df) : str_strip(df[i].genres) = S(<<"Drama">>)
                          /\ between(dt_year(to_datetime_coerce(df[i].release_date)), 1980, 2024)

\* C26: for a genre with a matching row country_heatmap returns a heatmap
\* with one row for each of its ten countries and raises nothing.
C26_CountryHeatmapDoesNotRaise ==
    (out.fn = "country_heatmap" /\ GenreMatched) =>
        /\ out.fig.kind = "figure"
        /\ out.fig.data.index = top_countries

\* company_heatmap does so for its ten studios.
CompanyHeatmapDoesNotRaise ==
    (out.fn = "company_heatmap" /\ GenreMatched) =>
        /\ out.fig.kind = "figure"
        /\ out.fig.data.index = final_studios

\* country_heatmap raises KeyError when one of its ten countries is in
\* none of the genre's rows, and returns the heatmap when each of them
\* has a row with a period.
CountryHeatmapRaisesOnAbsentCountry ==
    (out.fn = "country_heatmap" /\ GenreMatched) =>
        /\ (\E i \in 1..Len(top_countries) :
                \A j \in 1..Len(out.filtered) :
                    out.filtered[j].production_countries # S(<<top_countries[i]>>))
              => out.fig = Raise("KeyError")
        /\ (\A i \in 1..Len(top_countries) :
                \E j \in 1..Len(out.filtered) :
                    /\ out.filtered[j].production_countries = S(<<top_countries[i]>>)
                    /\ notna(out.filtered[j].period))
              => out.fig.kind = "figure"


-----------------------------------------------------------------------------
(* SpecTop10: two movies, each naming France once or MaxNamed times, so    *)
(* that the country has up to 2 * MaxNamed rows, taken through the two     *)
(* top-10 charts.                                                          *)

MaxNamed == 6

\* 'France, France, ...' with n tokens.
RECURSIVE Named(_)
Named(n) == IF n <= 1 THEN <<"France">> ELSE <<"France", ",", " ">> \o Named(n - 1)

Top10Records(title) ==
    {Row(S(<<title>>), S(<<"Drama">>), c, S(<<"Lionsgate">>), S(<<"1985-07-03">>), b, r) :
        c \in {S(Named(1)), S(Named(MaxNamed))},
        b \in {Whole(1), Whole(2)},
        r \in Amounts}

\* The second movie has a budget of 1 and a revenue.
Top10Init ==
    /\ csv \in {<<a, b>> : a \in Top10Records("T1"),
                           b \in {x \in Top10Records("T2") :
                                    /\ x.budget = Whole(1)
                                    /\ x.revenue \in {Whole(1), Whole(2)}}}
    /\ df = csv
    /\ InitGlobals
    /\ out = NoOut

Top10Next == UpdateTop10BarChart \/ UpdateTop10MoviesGraph

SpecTop10 == Top10Init /\ [][Top10Next]_vars

\* The rows the chart is drawn from: the rows of the processed table (one
\* per country token of a movie that has a roi) that are of the selected
\* country and have a value of the feature, as <<title, value>>.
Top10Candidates ==
    LET c == SelectSeq(out.exploded, LAMBDA r : /\ r.production_countries = S(out.country)
                                                /\ notna(r.roi)
                                                /\ notna(r[out.feature]))
    IN  [i \in 1..Len(c) |-> <<c[i].title, c[i][out.feature]>>]

\* How many times x occurs in the sequence s.
TimesIn(s, x) == Cardinality({i \in 1..Len(s) : s[i] = x})

Top10Drawn == out.fn \in {"get_top10_bar_chart", "create_top10_movies_plot"}

-----------------------------------------------------------------------------
(* SpecFeature: the top-10 graph's callback called again and again, as the *)
(* country is changed and the feature buttons and the theme button are     *)
(* clicked.  out holds the buttons' n_clicks, which are the callback's     *)
(* arguments, and what triggered the call ("" for the initial call).       *)

MaxFeatureCalls == 4

FeatureButtons == {"btn-revenue", "btn-budget", "btn-roi", "btn-popularity",
                   "top10_movies-theme-toggle"}

\* Two French movies that revenue and budget rank one way and roi the other.
FeatureInit ==
    /\ csv = <<Row(S(<<"T1">>), S(<<"Drama">>), S(<<"France">>), S(<<"Lionsgate">>),
                   S(<<"1985-07-03">>), Whole(1), Whole(50)),
               Row(S(<<"T2">>), S(<<"Drama">>), S(<<"France">>), S(<<"Lionsgate">>),
                   S(<<"1999-12-31">>), Whole(100), Whole(200))>>
    /\ df = csv
    /\ InitGlobals
    /\ out = [fn |-> "none", country |-> <<"France">>, trigger |-> "",
              n_clicks |-> [b \in FeatureButtons |-> 0], fig |-> Figure("", <<>>)]

\* update_top10_movies_graph(country, n_revenue, n_budget, n_roi,
\* n_popularity, theme_clicks): the first call has no trigger; a click
\* raises its button's n_clicks, a change of the dropdown sets the country.
FeatureUpdateTop10MoviesGraph ==
    /\ served < MaxFeatureCalls
    /\ \E trigger \in (IF out.fn = "none" THEN {""} ELSE Top10Triggers),
          c \in DropdownCountries :
        LET country == IF trigger = "top10-country-dropdown" THEN c ELSE out.country
        IN  /\ plot_themes' = IF trigger = "top10_movies-theme-toggle"
                              THEN [plot_themes EXCEPT !["top10_movies"] = Flip(@)]
                              ELSE plot_themes
            /\ \E f \in update_top10_movies_graph(country, trigger, df, plot_themes) :
                 out' = [fn |-> "update_top10_movies_graph", country |-> country,
                         trigger |-> trigger,
                         n_clicks |-> [b \in FeatureButtons |->
                                         IF b = trigger THEN out.n_clicks[b] + 1
                                         ELSE out.n_clicks[b]],
                         fig |-> f]
    /\ served' = served + 1
    /\ UNCHANGED <<csv, df, current_theme, choropleth_data>>

FeatureNext == FeatureUpdateTop10MoviesGraph

SpecFeature == FeatureInit /\ [][FeatureNext]_vars

\* The chart of the country ranked by the feature, in the plot's theme.
RankedBy(feature) ==
    out.fig \in create_top10_movies_plot(df, out.country, feature, plot_themes["top10_movies"])

\* C28: the chart update_top10_movies_graph returns is ranked by the
\* feature of the button that triggered the call, and by revenue when the
\* trigger is the dropdown, the theme toggle, the revenue button or the
\* initial call, whatever buttons were clicked before.
C28_FeatureOfTriggerOnly ==
    out.fn = "update_top10_movies_graph" =>
        /\ out.trigger = "btn-budget" => RankedBy("budget")
        /\ out.trigger = "btn-roi" => RankedBy("roi")
        /\ out.trigger = "btn-popularity" => RankedBy("popularity")
        /\ out.trigger \in {"", "top10-country-dropdown", "top10_movies-theme-toggle",
                            "btn-revenue"} => RankedBy("revenue")

\* The roi button was clicked and then the country was changed: the chart
\* is the revenue chart, which is not the roi chart.
C28_Witness ==
    /\ out.fn = "update_top10_movies_graph"
    /\ out.trigger = "top10-country-dropdown"
    /\ out.country = <<"France">>
    /\ out.n_clicks["btn-roi"] > 0
    /\ out.n_clicks["btn-budget"] = 0 /\ out.n_clicks["btn-popularity"] = 0
    /\ RankedBy("revenue")
    /\ ~RankedBy("roi")


-----------------------------------------------------------------------------
(* The genre popup, checked under Spec.                                    *)

\* The stored summary has the clicked code, and the genre table stored
\* with it has a row of that country.
ClickedCountryHasGenres(clickData) ==
    \E x \in choropleth_data.summary :
        /\ x.iso_alpha = S(<<clickData>>)
        /\ \E y \in choropleth_data.country_genre :
              y.production_countries = x.production_countries

\* C29: update_genre_popup returns display 'block' exactly when it was
\* triggered by a click on the map, choropleth_data has been stored, the
\* clicked code is in the stored summary and its country has a genre row;
\* in every other case it returns display 'none'.
C29_PopupShownOnlyForStoredCountry ==
    out.fn = "update_genre_popup" =>
        /\ out.result.style.display \in {"block", "none"}
        /\ out.result.style.display = "block" <=>
              /\ out.args.trigger = "choropleth"
              /\ out.args.clickData # ""
              /\ choropleth_data.set
              /\ ClickedCountryHasGenres(out.args.clickData)

\* The map was drawn and France clicked: the popup shows its genres.
C29_Witness ==
    /\ out.fn = "update_genre_popup"
    /\ out.args.clickData = "FRA"
    /\ out.result.style.display = "block"
    /\ out.result.figure.title = "Top Genres in"


-----------------------------------------------------------------------------
(* The reach of a theme button, checked under SpecClicks.                  *)

\* C30: no step made for a click on a plot's theme button changes another
\* plot's entry of plot_themes or current_theme, and no step made for a
\* click on the page's theme button changes plot_themes.
C30_ToggleTouchesOnlyItsTheme ==
    [][/\ out'.clicked \in DOMAIN plot_themes =>
            /\ current_theme' = current_theme
            /\ \A p \in DOMAIN plot_themes \ {out'.clicked} : plot_themes'[p] = plot_themes[p]
       /\ out'.clicked = "theme-toggle" => plot_themes' = plot_themes]_vars

\* The correlation heatmap's button was clicked and then the page's: the
\* heatmap's theme and the page's are light, every other plot's is dark.
C30_Witness ==
    /\ Idle
    /\ out.clicked = "theme-toggle"
    /\ out.n_clicks["correlation_heatmap"] = 1
    /\ current_theme = "light"
    /\ plot_themes = [InitPlotThemes EXCEPT !["correlation_heatmap"] = "light"]

====
